---- MODULE Spec2Model ----
(***************************************************************************)
(* Climate group helper: the sync mode handler (sync_mode.py), the service *)
(* call handler (service_call.py) and the group state update (climate.py). *)
(*                                                                         *)
(* Values.  A watched attribute a member does not report is None.  The     *)
(* hvac mode of a member is its state string; "unavailable" and "unknown"  *)
(* are the states the group filters out.  Temperatures are whole degrees;  *)
(* NoTemp stands for a temperature of None.  Timestamps are kept as        *)
(* "set"/"None": whether the guarded delay has elapsed since a timestamp   *)
(* was set is an input of the step that asks.                              *)
(*                                                                         *)
(* The specifications share the variables.  Spec is the group with its     *)
(* members, users and enforcement tasks; in one behaviour the members and  *)
(* the user vary one attribute (varied) besides the availability, and      *)
(* retry_attempts is 0, its default.  SpecDispatch is Spec for a MIRROR    *)
(* group whose members may report a third temperature.  SpecRetry is one   *)
(* run of execute_with_retry for every retry budget, SpecDebounce the      *)
(* debouncer of one service name, SpecSetter one run of an executor for    *)
(* one command, SpecReducer one application of one of the pure functions   *)
(* (_determine_hvac_mode, _determine_hvac_action, the limits, _mean_round, *)
(* _reduce_attributes, TargetState.update and to_dict,                     *)
(* ChangeState.from_event; fixed-point values are in hundredths).          *)
(* SpecColdStart is the group constructed while no member is available,    *)
(* SpecWindow the window control handler with the target state (state.py), *)
(* SpecWindowTimer that handler with its sensors, its timer and a user who *)
(* changes the target state.  SpecServiceCall is the ServiceCallHandler    *)
(* with the debouncer of one service name, its retry loops and cancel-all. *)
(***************************************************************************)
EXTENDS Integers, Sequences, FiniteSets, TLC

\* ---------------------------------------------------------------- bounds
NumMembers == 2
MaxTasks == 2
MaxUserCommands == 1
MaxMemberChanges == 3
MaxSyncRetryAttempts == 1
MaxRetryAttempts == 3
MaxDebounceCalls == 4

\* ----------------------------------------------------------- value domains
Members == 1..NumMembers
None == "None"
NoTemp == 0 - 1
HvacModes == {"off", "heat"}
Temps == {20, 21}
FanModes == {"low", "high"}
InvalidStates == {"unavailable", "unknown"}

SyncModes == {"standard", "lock", "mirror"}
HvacModeStrategies == {"normal", "off_priority", "auto"}
AverageOptions == {"min", "max", "mean"}

\* Context ids.  A user command on the group carries a context of its own
\* (the first MaxUserCommands of ContextNames); every enforcement call
\* carries a fresh Context() ("sync") and every manual change at a device a
\* fresh one ("ext").  Fresh contexts equal no other context, so one name
\* stands for each kind.
ContextNames == <<"user1", "user2", "user3">>
UserContexts == {ContextNames[i] : i \in 1..MaxUserCommands}
SyncContext == "sync"
ExtContext == "ext"
NoContext == "None"
Contexts == UserContexts \cup {SyncContext, ExtContext}

\* SYNC_MODE_WATCHED_ATTRIBUTES, in dictionary order
WatchedKeys == <<"hvac_mode", "temperature", "fan_mode", "preset_mode", "swing_mode">>
KeySet == {WatchedKeys[i] : i \in 1..Len(WatchedKeys)}
NoneOf(key) == IF key \in {"temperature", "last_updated_timestamp"} THEN NoTemp ELSE None

VARIABLES
    \* configuration of the group
    sync_mode, hvac_mode_strategy, target_avg_calc, sync_retry_attempts, retry_attempts,
    tie_first,
    \* the host state machine: member entity -> state record
    hass_states,
    \* ClimateGroup
    states, attr, available, target_hvac_mode, context, last_group_context,
    \* SyncModeHandler
    snapshot_attrs, snapshot_states, active_tasks, sync_retry_counter,
    last_sync_attempt, internal_change_start_time,
    \* the enforcement task and the execute_with_retry coroutines it gathers
    enf, children,
    \* the user command in flight through call_debounced / execute_with_retry
    user_call, user_commands,
    \* the member write interface: what reached each member, the last call
    ctx_seen, last_call,
    \* the member state changes so far, the attribute the environment varies
    member_changes, varied,
    \* one run of execute_with_retry on its own
    retry,
    \* the debouncer of one service name on its own
    debounce,
    \* one run of an executor of the ServiceCallHandler on its own
    setter,
    \* one application of a value reducer on its own
    reducer,
    \* the window control handler and the target state it switches
    window_control,
    \* the ServiceCallHandler with its debouncer, its retry loops and cancel-all
    service_call

vars == <<sync_mode, hvac_mode_strategy, target_avg_calc, sync_retry_attempts, retry_attempts,
          tie_first, hass_states, states, attr, available, target_hvac_mode, context,
          last_group_context, snapshot_attrs, snapshot_states, active_tasks,
          sync_retry_counter, last_sync_attempt, internal_change_start_time,
          enf, children, user_call, user_commands, ctx_seen, last_call, member_changes, varied, retry, debounce,
          setter, reducer, window_control, service_call>>

\* ------------------------------------------------------------ member states
\* A State object of a climate member: entity_id, state and the watched
\* attributes.  An unavailable member reports no attributes.
MemberState(id, st, temp, fan) ==
    [entity_id |-> id, state |-> st, temperature |-> temp, fan_mode |-> fan,
     preset_mode |-> None, swing_mode |-> None]

ValidMemberStates(id) ==
    {MemberState(id, st, t, f) : st \in HvacModes, t \in Temps, f \in FanModes}
UnavailableState(id) == MemberState(id, "unavailable", NoTemp, None)

\* "_states is None" / "_snapshot_states is None": a list holding no State
NoStates == <<MemberState(0, None, NoTemp, None)>>

\* sync_mode.py _get_attr_value
GetAttrValue(state, key) ==
    IF key = "hvac_mode" THEN state.state ELSE state[key]

\* --------------------------------------------------------- value reducers
Count(seq, v) == Cardinality({i \in DOMAIN seq : seq[i] = v})

\* the last value with the highest count
MostCommonLast(seq) ==
    seq[CHOOSE i \in DOMAIN seq :
            /\ \A j \in DOMAIN seq : Count(seq, seq[j]) <= Count(seq, seq[i])
            /\ \A j \in (i + 1)..Len(seq) : Count(seq, seq[j]) < Count(seq, seq[i])]

\* max(values, key=values.count): the first value with the highest count
MostCommonFirst(seq) ==
    seq[CHOOSE i \in DOMAIN seq :
            /\ \A j \in DOMAIN seq : Count(seq, seq[j]) <= Count(seq, seq[i])
            /\ \A j \in 1..(i - 1) : Count(seq, seq[j]) < Count(seq, seq[i])]

\* find_state_attributes: the values of key the states report (None dropped)
FindStateAttributes(sts, key) ==
    LET all == [i \in DOMAIN sts |-> GetAttrValue(sts[i], key)]
    IN  SelectSeq(all, LAMBDA v : v # NoneOf(key))

\* most_frequent_attribute: max(set(values), key=values.count); among the
\* values with the highest count the set's iteration order decides, which
\* order (a sequence without repetition) is the host's.
PositionIn(order, v) == CHOOSE i \in DOMAIN order : order[i] = v
MostFrequentAttribute(sts, key, order) ==
    LET vals == FindStateAttributes(sts, key)
        best == {v \in {vals[i] : i \in DOMAIN vals} :
                    \A j \in DOMAIN vals : Count(vals, vals[j]) <= Count(vals, v)}
    IN  IF vals = <<>> THEN NoneOf(key)
        ELSE CHOOSE v \in best :
                \A w \in best : PositionIn(order, v) <= PositionIn(order, w)

SeqSum(seq) ==
    LET f[i \in 0..Len(seq)] == IF i = 0 THEN 0 ELSE f[i - 1] + seq[i]
    IN  f[Len(seq)]
SeqMin(seq) == CHOOSE v \in {seq[i] : i \in DOMAIN seq} : \A j \in DOMAIN seq : v <= seq[j]
SeqMax(seq) == CHOOSE v \in {seq[i] : i \in DOMAIN seq} : \A j \in DOMAIN seq : v >= seq[j]

\* round(sum / n) of Python 3: to the nearest whole number, a half to the even one
RoundHalfEven(sum, n) ==
    LET q == sum \div n
        r == sum % n
    IN  IF 2 * r < n THEN q
        ELSE IF 2 * r > n THEN q + 1
        ELSE IF q % 2 = 0 THEN q ELSE q + 1

\* climate.py CALC_TYPES followed by _mean_round with RoundOption.INTEGER
\* (on whole degrees min and max are their own rounding)
TargetAvgCalc(calc, vals) ==
    CASE calc = "min" -> SeqMin(vals)
      [] calc = "max" -> SeqMax(vals)
      [] OTHER -> RoundHalfEven(SeqSum(vals), Len(vals))

\* reduce_attribute: None without values, the value itself when there is one
ReduceAttribute(sts, key, calc) ==
    LET vals == FindStateAttributes(sts, key)
    IN  IF vals = <<>> THEN NoneOf(key)
        ELSE IF Len(vals) = 1 THEN vals[1]
        ELSE TargetAvgCalc(calc, vals)

\* a group that takes the normal strategy whatever is configured
ResolvedStrategyNormal(configured, target) == "normal"

\* an auto strategy that never turns to off_priority
ResolvedStrategyAutoNormal(configured, target) ==
    IF configured = "auto" THEN "normal" ELSE configured

\* climate.py _determine_hvac_mode lines 580-589: auto is normal while the
\* target hvac mode is OFF or None, off_priority otherwise
ResolvedStrategy(configured, target) ==
    IF configured = "auto"
    THEN (IF target \in {"off", None} THEN "normal" ELSE "off_priority")
    ELSE configured

\* climate.py _determine_hvac_mode
DetermineHvacMode(current_hvac_modes, configured, target) ==
    LET active == SelectSeq(current_hvac_modes, LAMBDA m : m # "off")
        most_common == IF active = <<>> THEN None ELSE MostCommonFirst(active)
        strategy == ResolvedStrategy(configured, target)
        all_off == /\ current_hvac_modes # <<>>
                   /\ \A i \in DOMAIN current_hvac_modes : current_hvac_modes[i] = "off"
        any_off == \E i \in DOMAIN current_hvac_modes : current_hvac_modes[i] = "off"
    IN  CASE strategy = "normal" -> (IF all_off THEN "off" ELSE most_common)
          [] strategy = "off_priority" -> (IF any_off THEN "off" ELSE most_common)
          [] OTHER -> "off"

\* a member read that keeps the states of the members that do not respond
ValidStatesAll(hs) == [i \in 1..NumMembers |-> hs[i]]

\* climate.py async_update_group_state, the member read: the valid states in
\* member order
ValidStates(hs) ==
    SelectSeq([i \in 1..NumMembers |-> hs[i]], LAMBDA s : s.state \notin InvalidStates)

\* an aggregation that carries the group's previous target temperature on:
\* it moves the new one as far again from the previous one
GroupAttributesCarried(sts, strategy, target, calc, order) ==
    LET temperature == ReduceAttribute(sts, "temperature", calc)
    IN  [hvac_mode   |-> DetermineHvacMode([i \in DOMAIN sts |-> sts[i].state], strategy, target),
         temperature |-> IF NoTemp \in {temperature, attr["temperature"]}
                         THEN temperature
                         ELSE 2 * temperature - attr["temperature"],
         fan_mode    |-> MostFrequentAttribute(sts, "fan_mode", order),
         preset_mode |-> MostFrequentAttribute(sts, "preset_mode", order),
         swing_mode  |-> MostFrequentAttribute(sts, "swing_mode", order)]

\* climate.py async_update_group_state, the watched aggregates of valid states
GroupAttributes(sts, strategy, target, calc, order) ==
    [hvac_mode   |-> DetermineHvacMode([i \in DOMAIN sts |-> sts[i].state], strategy, target),
     temperature |-> ReduceAttribute(sts, "temperature", calc),
     fan_mode    |-> MostFrequentAttribute(sts, "fan_mode", order),
     preset_mode |-> MostFrequentAttribute(sts, "preset_mode", order),
     swing_mode  |-> MostFrequentAttribute(sts, "swing_mode", order)]

\* ------------------------------------------------------- SyncModeHandler
\* The handler's fields as one record h, so that the steps of one update
\* chain; cancelled and created tell the caller what happened to the tasks.
\* g is the group as the handler reads it: states, attr, context,
\* last_group_context.

\* a handler that takes no update for the echo of a command
IsInternalChangeNever(g) == FALSE

\* sync_mode.py _is_internal_change
IsInternalChange(g) ==
    /\ g.last_group_context # NoContext
    /\ g.context # NoContext
    /\ g.context = g.last_group_context

\* a handler that never sees its tasks
IsSyncingNever(h) == FALSE

\* sync_mode.py is_syncing
IsSyncing(h) == h.active_tasks # {}

\* sync_mode.py _get_service_calls, the keys of one state that differ from
\* its state in the snapshot (all of them when the snapshot has none)
ChangedKeys(sstates, state) ==
    LET known == {i \in DOMAIN sstates : sstates[i].entity_id = state.entity_id}
        \* the dictionary keeps the last state of an entity id
        last_state == sstates[CHOOSE i \in known : \A j \in known : j <= i]
    IN  IF known = {} THEN WatchedKeys
        ELSE SelectSeq(WatchedKeys,
                LAMBDA key : GetAttrValue(last_state, key) # GetAttrValue(state, key))

\* sync_mode.py _get_service_calls, the value a key is driven to
TargetValue(mode, sattrs, state, key) ==
    CASE mode = "lock" -> (IF key \in DOMAIN sattrs THEN sattrs[key] ELSE NoneOf(key))
      [] mode = "mirror" -> GetAttrValue(state, key)
      [] OTHER -> NoneOf(key)

\* the first state of the group with changed keys (0: none has any)
FirstChanged(sstates, sts) ==
    LET changed == {i \in DOMAIN sts : ChangedKeys(sstates, sts[i]) # <<>>}
    IN  IF changed = {} THEN 0 ELSE CHOOSE i \in changed : \A j \in changed : i <= j

\* the keys of that state for which a call is prepared
PreparedKeys(mode, sattrs, sstates, sts, attrs) ==
    LET i == FirstChanged(sstates, sts)
    IN  IF i = 0 THEN <<>>
        ELSE SelectSeq(ChangedKeys(sstates, sts[i]),
                LAMBDA key :
                    /\ TargetValue(mode, sattrs, sts[i], key) # NoneOf(key)
                    /\ attrs[key] # TargetValue(mode, sattrs, sts[i], key))

\* sync_mode.py _get_service_calls: (service name, {key: value}) per prepared key
GetServiceCalls(mode, sattrs, sstates, sts, attrs) ==
    LET i == FirstChanged(sstates, sts)
        keys == PreparedKeys(mode, sattrs, sstates, sts, attrs)
    IN  [n \in DOMAIN keys |->
            [key |-> keys[n], value |-> TargetValue(mode, sattrs, sts[i], keys[n])]]

\* sync_mode.py _get_service_calls, what it does to _last_sync_attempt
SyncTimerAfterCalls(timer, mode, sattrs, sstates, sts, attrs) ==
    IF FirstChanged(sstates, sts) = 0 THEN None
    ELSE IF PreparedKeys(mode, sattrs, sstates, sts, attrs) # <<>> /\ timer = None THEN "set"
    ELSE timer

\* _get_service_calls on the handler and group records
PendingCalls(h, g, mode) ==
    GetServiceCalls(mode, h.snapshot_attrs, h.snapshot_states, g.states, g.attr)
AfterPendingCalls(h, g, mode) ==
    [h EXCEPT !.last_sync_attempt =
        SyncTimerAfterCalls(h.last_sync_attempt, mode, h.snapshot_attrs,
                            h.snapshot_states, g.states, g.attr)]

\* sync_mode.py _do_snapshot
DoSnapshot(h, g) ==
    [h EXCEPT !.last_sync_attempt = None,
              !.snapshot_attrs = [key \in KeySet |-> g.attr[key]],
              !.snapshot_states = IF g.states = NoStates THEN <<>> ELSE g.states]

\* sync_mode.py _cancel_active_tasks
CancelActiveTasks(h) ==
    IF h.active_tasks # {}
    THEN [h EXCEPT !.cancelled = h.active_tasks, !.active_tasks = {}]
    ELSE h

\* snapshot_group_state without its STANDARD return
SnapshotGroupStateAnyMode(h, g, mode, elapsed) ==
    IF IsInternalChange(g) THEN CancelActiveTasks(h)
    ELSE IF IsSyncing(h) THEN h
    ELSE IF mode = "lock"
         THEN IF h.last_sync_attempt # None /\ elapsed THEN DoSnapshot(h, g)
              ELSE IF DOMAIN h.snapshot_attrs = {} THEN DoSnapshot(h, g)
              ELSE h
    ELSE DoSnapshot(h, g)

\* a snapshot_group_state that does not look at the active tasks
SnapshotGroupStateWhileSyncing(h, g, mode, elapsed) ==
    IF mode = "standard" THEN h
    ELSE IF IsInternalChange(g) THEN CancelActiveTasks(h)
    ELSE IF mode = "lock"
         THEN IF h.last_sync_attempt # None /\ elapsed THEN DoSnapshot(h, g)
              ELSE IF DOMAIN h.snapshot_attrs = {} THEN DoSnapshot(h, g)
              ELSE h
    ELSE DoSnapshot(h, g)

\* a snapshot_group_state that treats a lock group as a mirror group
SnapshotGroupStateAdopting(h, g, mode, elapsed) ==
    IF mode = "standard" THEN h
    ELSE IF IsInternalChange(g) THEN CancelActiveTasks(h)
    ELSE IF IsSyncing(h) THEN h
    ELSE DoSnapshot(h, g)

\* sync_mode.py snapshot_group_state; elapsed: more than _reset_delay_seconds
\* have passed since _last_sync_attempt
SnapshotGroupState(h, g, mode, elapsed) ==
    IF mode = "standard" THEN h
    ELSE IF IsInternalChange(g) THEN CancelActiveTasks(h)
    ELSE IF IsSyncing(h) THEN h
    ELSE IF mode = "lock"
         THEN IF h.last_sync_attempt # None /\ elapsed THEN DoSnapshot(h, g)
              ELSE IF DOMAIN h.snapshot_attrs = {} THEN DoSnapshot(h, g)
              ELSE h
    ELSE DoSnapshot(h, g)

\* sync_mode.py handle_sync_mode_changes, the internal change branch; elapsed:
\* more than SYNC_INTERNAL_CHANGE_TIMEOUT since _internal_change_start_time
HandleInternalChange(h, g, mode, elapsed) ==
    LET h1 == AfterPendingCalls(h, g, mode)
    IN  IF PendingCalls(h, g, mode) = <<>>
        THEN [DoSnapshot(h1, g) EXCEPT !.internal_change_start_time = None]
        ELSE IF h1.internal_change_start_time = None
             THEN [h1 EXCEPT !.internal_change_start_time = "set"]
        ELSE IF elapsed
             THEN [DoSnapshot(h1, g) EXCEPT !.internal_change_start_time = None]
        ELSE h1

\* sync_mode.py handle_sync_mode_changes
HandleSyncModeChanges(h, g, mode, elapsed) ==
    IF mode = "standard" \/ h.snapshot_states = NoStates \/ g.states = NoStates THEN h
    ELSE IF IsInternalChange(g) THEN HandleInternalChange(h, g, mode, elapsed)
    ELSE LET h1 == [h EXCEPT !.internal_change_start_time = None]
             h2 == AfterPendingCalls(h1, g, mode)
         IN  IF IsSyncing(h1) THEN h1
             ELSE IF PendingCalls(h1, g, mode) = <<>> THEN h2
             ELSE [h2 EXCEPT !.created = TRUE, !.dispatched = PendingCalls(h1, g, mode)]

\* ------------------------------------------------------------ ClimateGroup
\* The handler as it stands, no task touched yet
Handler ==
    [snapshot_attrs |-> snapshot_attrs, snapshot_states |-> snapshot_states,
     active_tasks |-> active_tasks, sync_retry_counter |-> sync_retry_counter,
     last_sync_attempt |-> last_sync_attempt,
     internal_change_start_time |-> internal_change_start_time,
     cancelled |-> {}, created |-> FALSE, dispatched |-> <<>>]

\* an update that keeps the last hvac mode when no member responds
UnavailableAttributesModeKept(attrs) == attrs

\* an update that clears every aggregate when no member responds
UnavailableAttributesCleared(attrs) == [key \in KeySet |-> NoneOf(key)]

\* climate.py async_update_group_state lines 808-811: without a valid state
\* the branch assigns _attr_hvac_mode (and _attr_available) and nothing else
UnavailableAttributes(attrs) == [attrs EXCEPT !["hvac_mode"] = None]

\* climate.py async_update_group_state: snapshot_group_state on the group as
\* it was, the member read and the aggregates, then handle_sync_mode_changes;
\* without valid states only hvac_mode and the availability change.
UpdateGroupState(h, hs, target, ctx, last, lock_elapsed, internal_elapsed) ==
    LET g0 == [states |-> states, attr |-> attr, context |-> ctx, last_group_context |-> last]
        h1 == SnapshotGroupState(h, g0, sync_mode, lock_elapsed)
        sts == ValidStates(hs)
        new_attr == IF sts # <<>>
                    THEN GroupAttributes(sts, hvac_mode_strategy, target, target_avg_calc, tie_first)
                    ELSE UnavailableAttributes(attr)
        g1 == [states |-> sts, attr |-> new_attr, context |-> ctx, last_group_context |-> last]
        h2 == IF sts # <<>> THEN HandleSyncModeChanges(h1, g1, sync_mode, internal_elapsed) ELSE h1
    IN  [h |-> h2, states |-> sts, attr |-> new_attr, available |-> (sts # <<>>)]

\* climate.py _get_supporting_entities: the members with a state that list the
\* value (a mode) or the feature (the target temperature).  Every member of
\* the model lists every mode and the feature while it is available.
GetSupportingEntities(hs) ==
    {m \in Members : hs[m].state # "unavailable"}

\* ------------------------------------------------------------------ tasks
TaskIds == 1..MaxTasks
NoTask == [pc |-> "none", attempt |-> 0, outcome |-> "none", view |-> <<>>]
NoChild(key) == [pc |-> "none", attempt |-> 0, value |-> NoneOf(key)]
NoChildren == [key \in KeySet |-> NoChild(key)]
NoCall == [pc |-> "none", key |-> None, value |-> None, context |-> NoContext, attempt |-> 0]
NoDebounce == [timer |-> FALSE, execute_at_end |-> FALSE, locked |-> FALSE,
               function |-> 0, calls |-> 0, log |-> <<>>]
NoRetry == [impl |-> "none", pc |-> "idle", attempt |-> 0, log |-> <<>>]
NoSetter == [pc |-> "idle"]
NoReducer == [pc |-> "idle"]
NoWindow == [control_state |-> "idle"]
NoServiceCall == [cancel_all |-> "none"]
NoSetterCall == [key |-> None, value |-> None, ids |-> {}, context |-> NoContext,
                 by |-> "none", cancelled |-> FALSE]

FreeTask(tasks) == CHOOSE t \in TaskIds : tasks[t].pc = "none" /\ \A u \in TaskIds : tasks[u].pc = "none" => t <= u

\* hass.async_create_background_task / task.cancel(): the tasks after an
\* update's handler pass.  A cancelled task runs no further step.  view
\* keeps for a task the calls that were pending when it was created.
TasksAfter(h) ==
    LET live == [t \in TaskIds |-> IF t \in h.cancelled THEN NoTask ELSE enf[t]]
    IN  IF h.created /\ \E t \in TaskIds : live[t].pc = "none"
        THEN [live EXCEPT ![FreeTask(live)] = [pc |-> "start", attempt |-> 0, outcome |-> "none",
                                               view |-> h.dispatched]]
        ELSE live
ChildrenAfter(h) ==
    [t \in TaskIds |-> IF t \in h.cancelled THEN NoChildren ELSE children[t]]
ActiveAfter(h) ==
    LET live == [t \in TaskIds |-> IF t \in h.cancelled THEN NoTask ELSE enf[t]]
    IN  IF h.created /\ \E t \in TaskIds : live[t].pc = "none"
        THEN h.active_tasks \cup {FreeTask(live)}
        ELSE h.active_tasks

\* the handler's fields after an update
SetHandler(h) ==
    /\ snapshot_attrs' = h.snapshot_attrs
    /\ snapshot_states' = h.snapshot_states
    /\ active_tasks' = ActiveAfter(h)
    /\ sync_retry_counter' = h.sync_retry_counter
    /\ last_sync_attempt' = h.last_sync_attempt
    /\ internal_change_start_time' = h.internal_change_start_time

ConfigUnchanged ==
    UNCHANGED <<sync_mode, hvac_mode_strategy, target_avg_calc, sync_retry_attempts,
                retry_attempts, tie_first>>
\* the configuration and the count of member changes
EnvUnchanged ==
    ConfigUnchanged /\ UNCHANGED <<member_changes, varied, retry, debounce, setter, reducer, window_control, service_call>>

\* ------------------------------------------------------ ServiceCallHandler
\* executors that do not look for supporting members
ExecutorUnchecked(key, value) ==
    IF key = "hvac_mode"
    THEN IF target_hvac_mode = value /\ attr["hvac_mode"] = value THEN "applied" ELSE "call"
    ELSE IF attr[key] = value THEN "applied" ELSE "call"

\* service_call.py execute_set_hvac_mode, execute_set_temperature (called
\* with a temperature only), execute_set_fan_mode, execute_set_preset_mode,
\* execute_set_swing_mode, up to their service call:
\*   "applied"  return True, the group already has the value
\*   "skipped"  return False, no member supports the value
\*   "call"     the setter call is made
Executor(key, value) ==
    IF key = "hvac_mode"
    THEN IF target_hvac_mode = value /\ attr["hvac_mode"] = value THEN "applied"
         ELSE IF GetSupportingEntities(hass_states) = {} THEN "skipped"
         ELSE "call"
    ELSE IF attr[key] = value THEN "applied"
         ELSE IF GetSupportingEntities(hass_states) = {} THEN "skipped"
         ELSE "call"

\* a retry loop that goes on after the executor reported the setting applied
AfterAttemptNoBreak(result, attempt) ==
    LET max_attempts == retry_attempts + 1
    IN  IF max_attempts > 1 /\ attempt < max_attempts - 1 THEN "sleep" ELSE "done"

\* a retry loop that lets the executor's exception out
AfterAttemptPropagates(result, attempt) ==
    LET max_attempts == retry_attempts + 1
    IN  IF result = "raise" THEN "raised"
        ELSE IF result = "True" THEN "done"
        ELSE IF max_attempts > 1 /\ attempt < max_attempts - 1 THEN "sleep"
        ELSE "done"

\* service_call.py execute_with_retry, what follows one invocation of the
\* executor that returned result ("True", "False") or raised an Exception
\* ("raise", which is logged): the loop breaks on a truthy result, else it
\* sleeps before the next attempt or ends after the last
AfterAttempt(result, attempt) ==
    LET max_attempts == retry_attempts + 1
    IN  IF result = "True" THEN "done"
        ELSE IF max_attempts > 1 /\ attempt < max_attempts - 1 THEN "sleep"
        ELSE "done"

\* the executor's return value as execute_with_retry reads it
ResultOf(applied) == IF applied THEN "True" ELSE "False"

\* hass.services.async_call of a setter: the call as the members receive it
SetterCall(key, value, ctx, by, cancelled) ==
    [key |-> key, value |-> value, ids |-> GetSupportingEntities(hass_states),
     context |-> ctx, by |-> by, cancelled |-> cancelled]

\* The user contexts that reached each member with a call
SeenAfter(ctx) ==
    IF ctx \in UserContexts
    THEN [m \in Members |->
            IF m \in GetSupportingEntities(hass_states) THEN ctx_seen[m] \cup {ctx} ELSE ctx_seen[m]]
    ELSE ctx_seen

ElapsedChoices(timer) == IF timer = None THEN {FALSE} ELSE BOOLEAN

\* service_call.py execute_set_hvac_mode lines 166-167: the target is set and
\* the group state updated (async_defer_or_update_ha_state) before the call
UpdateForHvacCall(value, lock_elapsed, internal_elapsed) ==
    UpdateGroupState(Handler, hass_states, value, context, last_group_context,
                     lock_elapsed, internal_elapsed)

\* ----------------------------------------------------------------- actions
\* The values a user may command for a key
UserValues(key) ==
    CASE key = "hvac_mode" -> HvacModes
      [] key = "temperature" -> Temps
      [] OTHER -> FanModes
UserKeys == {"hvac_mode", "temperature", "fan_mode"}

\* the members as the group finds them
InitialMemberState(m) == MemberState(m, "heat", 20, "low")

\* the group, the handler and the tasks as constructed
GroupAtRest ==
    /\ hass_states = [m \in Members |-> InitialMemberState(m)]
    /\ states = NoStates
    /\ attr = [key \in KeySet |-> NoneOf(key)]
    /\ available = FALSE
    /\ target_hvac_mode = None
    /\ context = NoContext
    /\ last_group_context = NoContext
    /\ snapshot_attrs = [key \in {} |-> None]
    /\ snapshot_states = NoStates
    /\ active_tasks = {}
    /\ sync_retry_counter = 0
    /\ last_sync_attempt = None
    /\ internal_change_start_time = None
    /\ enf = [t \in TaskIds |-> NoTask]
    /\ children = [t \in TaskIds |-> NoChildren]
    /\ user_call = NoCall
    /\ user_commands = 0
    /\ ctx_seen = [m \in Members |-> {}]
    /\ last_call = NoSetterCall
    /\ member_changes = 0

Init ==
    /\ sync_mode \in SyncModes
    /\ varied \in UserKeys
    /\ hvac_mode_strategy \in (IF varied = "hvac_mode" THEN HvacModeStrategies ELSE {"normal"})
    /\ target_avg_calc \in (IF varied = "temperature" THEN AverageOptions ELSE {"mean"})
    /\ sync_retry_attempts \in 0..MaxSyncRetryAttempts
    /\ retry_attempts = 0
    /\ tie_first \in (IF varied = "fan_mode" THEN {<<"low", "high">>, <<"high", "low">>}
                      ELSE {<<"low", "high">>})
    /\ GroupAtRest
    /\ retry = NoRetry
    /\ debounce = NoDebounce
    /\ setter = NoSetter
    /\ reducer = NoReducer
    /\ window_control = NoWindow
    /\ service_call = NoServiceCall

\* what one update leaves of the group, the handler and the tasks
ApplyUpdate(u) ==
    /\ states' = u.states
    /\ attr' = u.attr
    /\ available' = u.available
    /\ SetHandler(u.h)

\* GroupEntity.async_added_to_hass: the first update, once the host runs
InitialUpdate ==
    /\ states = NoStates
    /\ LET u == UpdateGroupState(Handler, hass_states, target_hvac_mode, context,
                                 last_group_context, FALSE, FALSE)
       IN  /\ ApplyUpdate(u)
           /\ enf' = TasksAfter(u.h)
           /\ children' = ChildrenAfter(u.h)
    /\ UNCHANGED <<hass_states, target_hvac_mode, context, last_group_context,
                   user_call, user_commands, ctx_seen, last_call>>
    /\ EnvUnchanged

\* What a member may report next: another value of the attribute the
\* environment varies, the member gone, or the member back
NextMemberStates(m) ==
    LET old == hass_states[m]
        reported == {n \in ValidMemberStates(m) :
                        \A key \in KeySet \ {varied} :
                            GetAttrValue(n, key) = GetAttrValue(InitialMemberState(m), key)}
    IN  (reported \cup {UnavailableState(m)}) \ {old}

\* sync_mode.py _enforce_group_state line 221: an enforcement call carries a
\* new Context(), which the state change it causes in a member it reached
\* carries in turn; SyncContext stands for it.
EchoContexts(m, new) ==
    IF /\ last_call.by = "sync"
       /\ m \in last_call.ids
       /\ GetAttrValue(new, last_call.key) = last_call.value
    THEN {SyncContext}
    ELSE {}

\* A member state change reaches the group: the state machine holds the new
\* state, the group's listener takes the event's context (GroupEntity's
\* async_set_context(event.context)) and updates the group state.  The event
\* carries the context of a user command that reached the member, that of
\* an enforcement call that reached it, or that of a manual change, for
\* which ExtContext stands.
MemberChange(m, new, ctx) ==
    /\ states # NoStates
    /\ member_changes < MaxMemberChanges
    /\ ctx \in {ExtContext} \cup ctx_seen[m] \cup EchoContexts(m, new)
    /\ hass_states' = [hass_states EXCEPT ![m] = new]
    /\ context' = ctx
    /\ \E lock_elapsed \in ElapsedChoices(last_sync_attempt),
          internal_elapsed \in ElapsedChoices(internal_change_start_time) :
          LET u == UpdateGroupState(Handler, hass_states', target_hvac_mode, ctx,
                                    last_group_context, lock_elapsed, internal_elapsed)
          IN  /\ ApplyUpdate(u)
              /\ enf' = TasksAfter(u.h)
              /\ children' = ChildrenAfter(u.h)
    /\ UNCHANGED <<target_hvac_mode, last_group_context, user_call, user_commands,
                   ctx_seen, last_call>>
    /\ member_changes' = member_changes + 1
    /\ UNCHANGED <<varied, retry, debounce, setter, reducer, window_control, service_call>>
    /\ ConfigUnchanged

\* the group and the handler untouched by a step
GroupUnchanged ==
    UNCHANGED <<states, attr, available, target_hvac_mode, snapshot_attrs, snapshot_states,
                active_tasks, sync_retry_counter, last_sync_attempt,
                internal_change_start_time>>

\* A user calls a setter of the group: the service helper sets the entity's
\* context, the setter goes through call_debounced (service_call.py 115-121),
\* which keeps the context as the last group context and arms the debouncer.
UserCommand(key, value) ==
    /\ states # NoStates
    /\ user_call.pc = "none"
    /\ user_commands < MaxUserCommands
    /\ value \in UserValues(key)
    /\ LET ctx == ContextNames[user_commands + 1]
       IN  /\ context' = ctx
           /\ last_group_context' = ctx
           /\ user_call' = [pc |-> "debounce", key |-> key, value |-> value,
                            context |-> ctx, attempt |-> 0]
    /\ user_commands' = user_commands + 1
    /\ GroupUnchanged
    /\ UNCHANGED <<hass_states, enf, children, ctx_seen, last_call>>
    /\ EnvUnchanged

\* service_call.py execute_with_retry, the end of one attempt of the user call
UserCallAfter(applied) ==
    IF AfterAttempt(ResultOf(applied), user_call.attempt) = "sleep"
    THEN [user_call EXCEPT !.pc = "sleep", !.attempt = @ + 1]
    ELSE NoCall

\* service_call.py _debounce_func / execute_with_retry: one attempt of the
\* user's call, the executor's checks, its blocking service call and its
\* return (False after a call)
UserExecute ==
    /\ user_call.pc \in {"debounce", "sleep"}
    /\ LET key == user_call.key
           value == user_call.value
           outcome == Executor(key, value)
       IN  \/ /\ outcome # "call"
              /\ user_call' = UserCallAfter(outcome = "applied")
              /\ GroupUnchanged
              /\ UNCHANGED <<enf, children, ctx_seen, last_call>>
           \/ /\ outcome = "call"
              /\ key = "hvac_mode"
              /\ target_hvac_mode' = value
              /\ \E lock_elapsed \in ElapsedChoices(last_sync_attempt),
                    internal_elapsed \in ElapsedChoices(internal_change_start_time) :
                    LET u == UpdateForHvacCall(value, lock_elapsed, internal_elapsed)
                    IN  /\ ApplyUpdate(u)
                        /\ enf' = TasksAfter(u.h)
                        /\ children' = ChildrenAfter(u.h)
              /\ last_call' = SetterCall(key, value, user_call.context, "user", FALSE)
              /\ ctx_seen' = SeenAfter(user_call.context)
              /\ user_call' = UserCallAfter(FALSE)
           \/ /\ outcome = "call"
              /\ key # "hvac_mode"
              /\ GroupUnchanged
              /\ UNCHANGED <<enf, children>>
              /\ last_call' = SetterCall(key, value, user_call.context, "user", FALSE)
              /\ ctx_seen' = SeenAfter(user_call.context)
              /\ user_call' = UserCallAfter(FALSE)
    /\ UNCHANGED <<hass_states, context, last_group_context, user_commands>>
    /\ EnvUnchanged

\* ------------------------------------------------- the enforcement task
\* the group as the handler reads it
Group ==
    [states |-> states, attr |-> attr, context |-> context,
     last_group_context |-> last_group_context]

\* a loop with one attempt more than the budget
MaxAttemptsOneMore == sync_retry_attempts + 2

\* sync_mode.py _enforce_group_state: max_attempts
MaxAttempts == sync_retry_attempts + 1

\* sync_mode.py _enforce_group_state step 2: one execute_with_retry per
\* pending call, gathered
ChildrenFor(pending) ==
    [key \in KeySet |->
        IF \E n \in DOMAIN pending : pending[n].key = key
        THEN [pc |-> "ready", attempt |-> 0,
              value |-> pending[CHOOSE n \in DOMAIN pending : pending[n].key = key].value]
        ELSE NoChild(key)]

\* an abort that takes what it read as the new baseline
AbortEnforcementCapitulating(h, g) == [DoSnapshot(h, g) EXCEPT !.sync_retry_counter = 0]

\* sync_mode.py _enforce_group_state step 4, no member with a valid state:
\* the counter is reset and the loop left
AbortEnforcement(h, g) == [h EXCEPT !.sync_retry_counter = 0]

\* sync_mode.py _enforce_group_state, one turn of the loop up to the gather:
\* after the settle time the member states are read again (step 4), then
\* the next attempt starts or, with no attempt left, the handler capitulates.
EnfRun(t) ==
    /\ enf[t].pc \in {"start", "settle"}
    /\ LET from_settle == enf[t].pc = "settle"
           no_states == from_settle /\ ValidStates(hass_states) = <<>>
           attempt == IF from_settle THEN enf[t].attempt + 1 ELSE 0
           pending == PendingCalls(Handler, Group, sync_mode)
           h1 == AfterPendingCalls(Handler, Group, sync_mode)
       IN  \/ /\ no_states
              /\ SetHandler(AbortEnforcement(Handler, Group))
              /\ enf' = [enf EXCEPT ![t] = [pc |-> "done", attempt |-> enf[t].attempt,
                                            outcome |-> "aborted", view |-> <<>>]]
              /\ UNCHANGED children
           \/ /\ ~no_states
              /\ attempt >= MaxAttempts
              /\ SetHandler([DoSnapshot(h1, Group) EXCEPT !.sync_retry_counter = 0])
              /\ enf' = [enf EXCEPT ![t] = [pc |-> "done", attempt |-> enf[t].attempt,
                                            outcome |-> "capitulated", view |-> <<>>]]
              /\ UNCHANGED children
           \/ /\ ~no_states
              /\ attempt < MaxAttempts
              /\ pending = <<>>
              /\ SetHandler([h1 EXCEPT !.sync_retry_counter = 0])
              /\ enf' = [enf EXCEPT ![t] = [pc |-> "done", attempt |-> attempt,
                                            outcome |-> "in_sync", view |-> <<>>]]
              /\ UNCHANGED children
           \/ /\ ~no_states
              /\ attempt < MaxAttempts
              /\ pending # <<>>
              /\ SetHandler([h1 EXCEPT !.sync_retry_counter = attempt + 1])
              /\ enf' = [enf EXCEPT ![t] = [pc |-> "gather", attempt |-> attempt,
                                            outcome |-> "none", view |-> enf[t].view]]
              /\ children' = [children EXCEPT ![t] = ChildrenFor(pending)]
    /\ UNCHANGED <<hass_states, states, attr, available, target_hvac_mode, context,
                   last_group_context, user_call, user_commands, ctx_seen, last_call>>
    /\ EnvUnchanged

\* service_call.py execute_with_retry, the end of one attempt of a gathered call
ChildAfter(c, applied) ==
    IF AfterAttempt(ResultOf(applied), c.attempt) = "sleep"
    THEN [c EXCEPT !.pc = "sleep", !.attempt = @ + 1]
    ELSE [c EXCEPT !.pc = "done"]

\* asyncio.gather returns once every gathered call has ended; the task then
\* waits the settle time (sync_mode.py step 3)
EnfAfterChildren(tasks, t, cs) ==
    IF \A key \in KeySet : cs[key].pc \in {"none", "done"}
    THEN [tasks EXCEPT ![t].pc = "settle"]
    ELSE tasks

\* the gathered calls start in the order of the list
FirstReady(t, key) ==
    \A n \in 1..Len(WatchedKeys) :
        n < PositionIn(WatchedKeys, key) => children[t][WatchedKeys[n]].pc # "ready"

\* One attempt of a gathered execute_with_retry: the executor's checks, its
\* blocking service call and its return.  The update made by
\* execute_set_hvac_mode before its service call may find the group context
\* equal to the last group context and cancel the active tasks, the running
\* one included: the cancellation is delivered at the task's next
\* suspension, which is inside the service call that follows.
ChildExecute(t, key) ==
    /\ enf[t].pc = "gather"
    /\ children[t][key].pc \in {"ready", "sleep"}
    /\ children[t][key].pc = "ready" => FirstReady(t, key)
    /\ LET c == children[t][key]
           outcome == Executor(key, c.value)
           after == [children[t] EXCEPT ![key] = ChildAfter(c, outcome = "applied")]
       IN  \/ /\ outcome # "call"
              /\ children' = [children EXCEPT ![t] = after]
              /\ enf' = EnfAfterChildren(enf, t, after)
              /\ GroupUnchanged
              /\ UNCHANGED last_call
           \/ /\ outcome = "call"
              /\ key = "hvac_mode"
              /\ target_hvac_mode' = c.value
              /\ \E lock_elapsed \in ElapsedChoices(last_sync_attempt),
                    internal_elapsed \in ElapsedChoices(internal_change_start_time) :
                    LET u == UpdateForHvacCall(c.value, lock_elapsed, internal_elapsed)
                        cancelled == t \in u.h.cancelled
                    IN  /\ ApplyUpdate(u)
                        /\ enf' = IF cancelled THEN TasksAfter(u.h)
                                  ELSE EnfAfterChildren(TasksAfter(u.h), t, after)
                        /\ children' = IF cancelled THEN ChildrenAfter(u.h)
                                       ELSE [children EXCEPT ![t] = after]
                        /\ last_call' = SetterCall(key, c.value, SyncContext, "sync", cancelled)
           \/ /\ outcome = "call"
              /\ key # "hvac_mode"
              /\ GroupUnchanged
              /\ enf' = EnfAfterChildren(enf, t, after)
              /\ children' = [children EXCEPT ![t] = after]
              /\ last_call' = SetterCall(key, c.value, SyncContext, "sync", FALSE)
    /\ UNCHANGED <<hass_states, context, last_group_context, user_call, user_commands,
                   ctx_seen>>
    /\ EnvUnchanged

\* task.add_done_callback(self._active_tasks.discard), for a task that ended
TaskDone(t) ==
    /\ enf[t].pc = "done"
    /\ active_tasks' = active_tasks \ {t}
    /\ enf' = [enf EXCEPT ![t] = NoTask]
    /\ children' = [children EXCEPT ![t] = NoChildren]
    /\ UNCHANGED <<hass_states, states, attr, available, target_hvac_mode, context,
                   last_group_context, snapshot_attrs, snapshot_states, sync_retry_counter,
                   last_sync_attempt, internal_change_start_time, user_call, user_commands,
                   ctx_seen, last_call>>
    /\ EnvUnchanged

Next ==
    \/ InitialUpdate
    \/ \E m \in Members, ctx \in Contexts :
          \E new \in NextMemberStates(m) : MemberChange(m, new, ctx)
    \/ \E value \in UserValues(varied) : UserCommand(varied, value)
    \/ UserExecute
    \/ \E t \in TaskIds : EnfRun(t)
    \/ \E t \in TaskIds, key \in KeySet : ChildExecute(t, key)
    \/ \E t \in TaskIds : TaskDone(t)

Spec == Init /\ [][Next]_vars

\* ------------------------------------------------------------------ claims
\* snapshot_group_state as it would run now on an update that carries the
\* context of the last command
InternalSnapshot(elapsed) ==
    SnapshotGroupState(Handler, [Group EXCEPT !.context = last_group_context],
                       sync_mode, elapsed)

\* C1: in LOCK or MIRROR mode an update whose context is the last command
\* context cancels every active enforcement task and leaves the set of active
\* tasks empty before it proceeds, and no setter call is issued by a task
\* that has been cancelled.
C1_UserIntentPreempts ==
    /\ (sync_mode \in {"lock", "mirror"} /\ last_group_context # NoContext) =>
          \A elapsed \in BOOLEAN :
             /\ InternalSnapshot(elapsed).active_tasks = {}
             /\ InternalSnapshot(elapsed).cancelled = active_tasks
    /\ ~last_call.cancelled

\* C2: a member state change whose context is the last command context
\* never starts an enforcement task, in any sync mode and for any member
\* states: after it no task exists.
C2_EchoStartsNoTask ==
    [][(/\ member_changes' # member_changes
        /\ context' # NoContext
        /\ context' = last_group_context')
       => (\A t \in TaskIds : enf'[t].pc = "none") /\ active_tasks' = {}]_vars

\* C2 witness: the echo of a user's temperature command was processed while
\* a member still deviated from the snapshot (the timer of the internal
\* branch runs, and no executor has ever updated the group), and no task
\* was started.
C2_Witness ==
    /\ sync_mode \in {"lock", "mirror"}
    /\ varied = "temperature"
    /\ target_hvac_mode = None
    /\ context = last_group_context
    /\ context \in UserContexts
    /\ internal_change_start_time = "set"
    /\ PendingCalls(Handler, Group, sync_mode) # <<>>
    /\ \A t \in TaskIds : enf[t].pc = "none"

\* a member changed in this step, from one hvac mode to another
SwitchedMode(from, to) ==
    /\ member_changes' # member_changes
    /\ \E m \in Members : hass_states[m].state = from /\ hass_states'[m].state = to

\* the calls pending after this step hold the call of key with value
PendingAfter(key, value) ==
    \E n \in DOMAIN PendingCalls(Handler, Group, sync_mode)' :
        /\ PendingCalls(Handler, Group, sync_mode)'[n].key = key
        /\ PendingCalls(Handler, Group, sync_mode)'[n].value = value

\* C3: in LOCK mode with a snapshot whose hvac_mode is heat (the mode the
\* user commanded last), when a member is switched to off from outside
\* while no enforcement and no user call is active, an
\* enforcement task starts whose pending calls hold set_hvac_mode heat (the
\* call that reverts the member within one enforcement cycle), for every
\* group size and strategy.
C3_LockRevertsOff ==
    [][(/\ sync_mode = "lock"
        /\ "hvac_mode" \in DOMAIN snapshot_attrs
        /\ snapshot_attrs["hvac_mode"] = "heat"
        /\ target_hvac_mode = "heat"
        /\ user_call.pc = "none"
        /\ active_tasks = {}
        /\ SwitchedMode("heat", "off")
        /\ context' # last_group_context')
       => /\ \E t \in TaskIds : enf'[t].pc = "start"
          /\ PendingAfter("hvac_mode", "heat")]_vars

\* an available member changed the value of key to value in this step
ChangedAttr(key, value) ==
    /\ member_changes' # member_changes
    /\ \E m \in Members :
          /\ hass_states[m].state \notin InvalidStates
          /\ hass_states'[m].state \notin InvalidStates
          /\ GetAttrValue(hass_states[m], key) # value
          /\ GetAttrValue(hass_states'[m], key) = value

\* C4: in MIRROR mode, when a member changes a watched attribute from
\* outside while no enforcement and no user call is active, an enforcement
\* task starts whose pending calls hold the setter of that attribute with
\* the member's new value (the call that carries the value to the members
\* that support it).
C4_MirrorAdopts ==
    [][\A key \in UserKeys : \A value \in UserValues(key) :
        (/\ sync_mode = "mirror"
         /\ active_tasks = {}
         /\ user_call.pc = "none"
         /\ ChangedAttr(key, value)
         /\ context' # last_group_context')
        => /\ \E t \in TaskIds : enf'[t].pc = "start"
           /\ PendingAfter(key, value)]_vars

\* C5: in STANDARD mode the sync handler never takes a snapshot (the
\* snapshot attributes stay empty, the snapshot states None), never creates
\* an enforcement task and never issues a setter call.
C5_StandardPassThrough ==
    sync_mode = "standard" =>
        /\ DOMAIN snapshot_attrs = {}
        /\ snapshot_states = NoStates
        /\ active_tasks = {}
        /\ \A t \in TaskIds : enf[t].pc = "none"
        /\ last_call.by # "sync"
        /\ sync_retry_counter = 0
        /\ last_sync_attempt = None
        /\ internal_change_start_time = None

\* C5 witness: a STANDARD group whose members have changed and differ in
\* the varied attribute, after a user command has gone out to them
C5_Witness ==
    /\ sync_mode = "standard"
    /\ member_changes = MaxMemberChanges
    /\ last_call.by = "user"
    /\ Len(states) = NumMembers
    /\ \E i, j \in DOMAIN states :
          GetAttrValue(states[i], varied) # GetAttrValue(states[j], varied)

\* C6: the enforcement loop makes at most sync_retry_attempts + 1 attempts
\* and a task resumed after its last attempt ends; when it capitulates the
\* snapshot becomes the current member states and group values, so that no
\* service call is pending right after.
C6_AttemptsBounded ==
    /\ sync_retry_counter <= sync_retry_attempts + 1
    /\ \A t \in TaskIds : enf[t].attempt <= sync_retry_attempts
C6_EnforcementCapitulates ==
    [][/\ C6_AttemptsBounded'
       /\ \A t \in TaskIds :
            /\ (enf[t].pc = "settle" /\ enf[t].attempt = sync_retry_attempts /\ enf'[t] # enf[t])
                  => enf'[t].pc \in {"done", "none"}
            /\ (enf[t].pc # "done" /\ enf'[t].pc = "done" /\ enf'[t].outcome = "capitulated")
                  => /\ enf[t].attempt = sync_retry_attempts
                     /\ snapshot_states' = states'
                     /\ snapshot_attrs' = attr'
                     /\ sync_retry_counter' = 0
                     /\ PendingCalls(Handler, Group, sync_mode)' = <<>>]_vars

\* C6 witness: a task has capitulated after the last of two attempts, its
\* calls issued, with the members still apart
C6_Witness ==
    /\ sync_retry_attempts = MaxSyncRetryAttempts
    /\ last_call.by = "sync"
    /\ \E t \in TaskIds : enf[t].pc = "done" /\ enf[t].outcome = "capitulated"
                          /\ enf[t].attempt = MaxSyncRetryAttempts
    /\ \E i, j \in DOMAIN states :
          GetAttrValue(states[i], varied) # GetAttrValue(states[j], varied)

\* the temperature the enforcement drives the members to: the snapshot's in
\* LOCK mode, the adopted one, which the group then shows, in MIRROR mode
EnforcementTargetTemperature ==
    IF sync_mode = "lock" THEN snapshot_attrs["temperature"] ELSE attr["temperature"]

\* C7: when an enforcement loop ends because no service call is pending,
\* every valid member reports the enforcement target temperature (within
\* 0.1, which on whole degrees is equality).
C7_EnforcementConverges ==
    [][\A t \in TaskIds :
        (enf[t].pc \in {"start", "settle"} /\ enf'[t].pc = "done" /\ enf'[t].outcome = "in_sync")
        => \A i \in DOMAIN states' :
              states'[i].temperature = EnforcementTargetTemperature']_vars

\* ------------------------------------------- execute_with_retry on its own
\* One run of the retry loop against an executor that may return True,
\* return False or raise in each attempt.  retry.log keeps what the run did:
\* the result of every invocation and every sleep.
RetryImpls == {"handler", "executor"}
RetryResults == {"True", "False", "raise"}

\* __init__.py lines 105-111: repeat_count was the total of executions,
\* retry_attempts is the retries after the first
RepeatCount == retry_attempts + 1

\* climate.py ServiceExecutor.execute_with_retry, what follows one
\* invocation: the loop breaks on a falsy result (validation successful or
\* execution not possible), else sleeps or ends
ExecutorAfterAttempt(result, attempt) ==
    LET repeat_count == RepeatCount
    IN  IF result = "False" THEN "done"
        ELSE IF repeat_count > 1 /\ attempt < repeat_count - 1 THEN "sleep"
        ELSE "done"

\* the result by which an executor reports the setting as applied
AppliedResult(impl) == IF impl = "handler" THEN "True" ELSE "False"

InitRetry ==
    /\ sync_mode = "standard"
    /\ varied = "temperature"
    /\ hvac_mode_strategy = "normal"
    /\ target_avg_calc = "mean"
    /\ sync_retry_attempts = 0
    /\ tie_first = <<"low", "high">>
    /\ GroupAtRest
    /\ retry_attempts \in 0..MaxRetryAttempts
    /\ \E impl \in RetryImpls :
          retry = [impl |-> impl, pc |-> "run", attempt |-> 0, log |-> <<>>]
    /\ debounce = NoDebounce
    /\ setter = NoSetter
    /\ reducer = NoReducer
    /\ window_control = NoWindow
    /\ service_call = NoServiceCall

\* the variables of the group, which a run on its own leaves alone
group_vars == <<sync_mode, hvac_mode_strategy, target_avg_calc, sync_retry_attempts,
                retry_attempts, tie_first, hass_states, states, attr, available,
                target_hvac_mode, context, last_group_context, snapshot_attrs,
                snapshot_states, active_tasks, sync_retry_counter, last_sync_attempt,
                internal_change_start_time, enf, children, user_call, user_commands,
                ctx_seen, last_call, member_changes, varied>>

\* one attempt: the executor is awaited and returns or raises
RetryInvoke(result) ==
    /\ retry.pc = "run"
    /\ retry' = [retry EXCEPT
                    !.log = Append(@, result),
                    !.pc = IF retry.impl = "handler"
                           THEN AfterAttempt(result, retry.attempt)
                           ELSE ExecutorAfterAttempt(result, retry.attempt)]
    /\ UNCHANGED <<group_vars, debounce, setter, reducer, window_control, service_call>>

\* asyncio.sleep(retry_delay) between two attempts
RetrySleep ==
    /\ retry.pc = "sleep"
    /\ retry' = [retry EXCEPT !.log = Append(@, "sleep"), !.pc = "run", !.attempt = @ + 1]
    /\ UNCHANGED <<group_vars, debounce, setter, reducer, window_control, service_call>>

NextRetry ==
    \/ \E result \in RetryResults : RetryInvoke(result)
    \/ RetrySleep

SpecRetry == InitRetry /\ [][NextRetry]_vars

\* the invocations of the executor in a log
Invocations(log) == SelectSeq(log, LAMBDA e : e # "sleep")

\* C8: one run of execute_with_retry invokes the executor at most
\* retry_attempts + 1 times, one after the other with a sleep between two,
\* never again after an invocation that reported the setting applied, and
\* with retry_attempts = 0 exactly once and without a sleep.
C8_RetryBudget ==
    LET log == retry.log
        applied == AppliedResult(retry.impl)
    IN  /\ Len(Invocations(log)) <= retry_attempts + 1
        /\ \A i \in DOMAIN log : log[i] = applied => i = Len(log)
        /\ \A i \in DOMAIN log : (i > 1 /\ log[i] # "sleep") => log[i - 1] = "sleep"
        /\ retry.attempt + 1 = Len(Invocations(log)) + (IF retry.pc = "run" THEN 1 ELSE 0)
        /\ retry_attempts = 0 =>
              /\ \A i \in DOMAIN log : log[i] # "sleep"
              /\ retry.pc = "done" => Len(log) = 1
        /\ retry.pc \in {"run", "sleep", "done"}

\* C8 witness: a run that ended when the last attempt of the largest budget
\* reported the setting applied
C8_Witness ==
    /\ retry.pc = "done"
    /\ retry_attempts = MaxRetryAttempts
    /\ Len(Invocations(retry.log)) = MaxRetryAttempts + 1
    /\ retry.log[Len(retry.log)] = AppliedResult(retry.impl)

\* C9: an exception of the setter call does not leave execute_with_retry and
\* does not end the loop: the attempts that remain are still made, and the
\* run ends normally once the budget is used.
C9_FailureAbsorbed ==
    LET log == retry.log
        made == Len(Invocations(log))
    IN  /\ retry.pc # "raised"
        /\ (log # <<>> /\ log[Len(log)] = "raise") =>
              retry.pc = (IF made < retry_attempts + 1 THEN "sleep" ELSE "done")
        /\ (retry.pc = "done" /\ \A i \in DOMAIN log : log[i] \in {"raise", "sleep"}) =>
              made = retry_attempts + 1

\* C9 witness: a run in which every attempt of the largest budget raised,
\* ended normally
C9_Witness ==
    /\ retry.pc = "done"
    /\ retry.impl = "handler"
    /\ retry_attempts = MaxRetryAttempts
    /\ Len(Invocations(retry.log)) = MaxRetryAttempts + 1
    /\ \A i \in DOMAIN retry.log : retry.log[i] \in {"raise", "sleep"}

\* --------------------------------------------------- call_debounced on its own
\* The Debouncer of one service name, created with immediate=False
\* (service_call.py lines 134-141).  An invocation carries its arguments in
\* the closure _debounce_func; arguments are numbered 1..MaxDebounceArgs.
\* debounce.function is the closure the debouncer holds (0: no debouncer
\* yet), debounce.log what was invoked ("call"), what was executed ("exec")
\* and when an execution ended ("end").
MaxDebounceArgs == 2
DebounceArgs == 1..MaxDebounceArgs
Event(e, arg) == [e |-> e, arg |-> arg]

\* a handler that keeps the closure of the first invocation
FunctionKeptFromFirst(function, arg) == IF function = 0 THEN arg ELSE function

\* service_call.py call_debounced lines 134-145: the debouncer is created
\* with the invocation's closure, or its function replaced by it
FunctionAfterCall(function, arg) == arg

InitDebounce ==
    /\ sync_mode = "standard"
    /\ varied = "temperature"
    /\ hvac_mode_strategy = "normal"
    /\ target_avg_calc = "mean"
    /\ sync_retry_attempts = 0
    /\ retry_attempts = 0
    /\ tie_first = <<"low", "high">>
    /\ GroupAtRest
    /\ retry = NoRetry
    /\ debounce = NoDebounce
    /\ setter = NoSetter
    /\ reducer = NoReducer
    /\ window_control = NoWindow
    /\ service_call = NoServiceCall

\* call_debounced: the closure is stored, then Debouncer.async_call.  While
\* the timer runs the call is noted for the end of the timer; while the
\* function is executing the call is dropped; else the timer is started.
CallDebounced(arg) ==
    /\ debounce.calls < MaxDebounceCalls
    /\ LET d == [debounce EXCEPT !.function = FunctionAfterCall(@, arg),
                                 !.calls = @ + 1,
                                 !.log = Append(@, Event("call", arg))]
       IN  debounce' = IF d.timer THEN [d EXCEPT !.execute_at_end = TRUE]
                       ELSE IF d.locked THEN d
                       ELSE [d EXCEPT !.execute_at_end = TRUE, !.timer = TRUE]
    /\ UNCHANGED <<group_vars, retry, setter, reducer, window_control, service_call>>

\* the cooldown timer ends: the function the debouncer holds is executed if
\* a call was noted and no execution is running
TimerFinish ==
    /\ debounce.timer
    /\ LET d == [debounce EXCEPT !.timer = FALSE, !.execute_at_end = FALSE]
       IN  debounce' = IF debounce.execute_at_end /\ ~debounce.locked
                       THEN [d EXCEPT !.locked = TRUE,
                                      !.log = Append(@, Event("exec", debounce.function))]
                       ELSE d
    /\ UNCHANGED <<group_vars, retry, setter, reducer, window_control, service_call>>

\* _debounce_func returns: the lock is released and a new cooldown starts
ExecutionEnds ==
    /\ debounce.locked
    /\ debounce' = [debounce EXCEPT !.locked = FALSE, !.timer = TRUE,
                                    !.log = Append(@, Event("end", 0))]
    /\ UNCHANGED <<group_vars, retry, setter, reducer, window_control, service_call>>

NextDebounce ==
    \/ \E arg \in DebounceArgs : CallDebounced(arg)
    \/ TimerFinish
    \/ ExecutionEnds

SpecDebounce == InitDebounce /\ [][NextDebounce]_vars

\* the invocations that arrived while the running timer was pending: the
\* calls at the end of the log, back to the last execution or its end
Window(log) ==
    LET stops == {i \in DOMAIN log : log[i].e # "call"}
        from == IF stops = {} THEN 1 ELSE 1 + CHOOSE i \in stops : \A j \in stops : j <= i
    IN  SubSeq(log, from, Len(log))

\* C10: the invocations of one service name that arrive within one cooldown
\* window lead to exactly one execution, at the end of the window, with the
\* arguments of the latest invocation; no execution starts at any other
\* moment, so the arguments of the earlier invocations are never sent.
C10_TrailingEdgeDebounce ==
    [][LET window == Window(debounce.log)
           executions == Len(debounce'.log) - Len(debounce.log)
       IN  IF debounce.timer /\ ~debounce'.timer /\ window # <<>>
           THEN /\ executions = 1
                /\ debounce'.log[Len(debounce'.log)] =
                      Event("exec", window[Len(window)].arg)
           ELSE \A i \in DOMAIN debounce'.log :
                   i > Len(debounce.log) => debounce'.log[i].e # "exec"]_vars

\* C10 witness: a window of three invocations, the earlier with other
\* arguments than the last, ended with the one execution
C10_Witness ==
    LET log == debounce.log
    IN  /\ Len(log) = 4
        /\ log[1].e = "call" /\ log[2].e = "call" /\ log[3].e = "call"
        /\ log[1].arg # log[3].arg
        /\ log[4] = Event("exec", log[3].arg)


\* ---------------------------------------------------- an executor on its own
\* One run of an executor of the ServiceCallHandler for one command, against
\* a group in standard mode some time after its start: the members in any
\* state, the group state updated from them, the target hvac mode as an
\* earlier command left it.  setter.kwargs is the command (None / NoTemp: the
\* keyword is absent), setter.attr_low and setter.attr_high are the group's
\* range aggregates, setter.range_ids the members with the
\* TARGET_TEMPERATURE_RANGE feature, setter.log the setter calls made, each
\* with the target hvac mode at the time of the call.
NoKwargs ==
    [hvac_mode |-> None, temperature |-> NoTemp, target_temp_low |-> NoTemp,
     target_temp_high |-> NoTemp, fan_mode |-> None]

\* The commands: set_hvac_mode and set_fan_mode with their value,
\* set_temperature with at least one of temperature, target_temp_low and
\* target_temp_high (the service schema asks for one) and maybe an hvac_mode
SetterCommands ==
    {[service |-> "set_hvac_mode", kwargs |-> [NoKwargs EXCEPT !.hvac_mode = m]] :
        m \in HvacModes}
    \cup {[service |-> "set_fan_mode", kwargs |-> [NoKwargs EXCEPT !.fan_mode = f]] :
            f \in FanModes}
    \cup {[service |-> "set_temperature", kwargs |-> k] :
            k \in {kw \in [hvac_mode : HvacModes \cup {None},
                           temperature : Temps \cup {NoTemp},
                           target_temp_low : {18, NoTemp},
                           target_temp_high : {24, NoTemp},
                           fan_mode : {None}] :
                      \/ kw.temperature # NoTemp
                      \/ kw.target_temp_low # NoTemp
                      \/ kw.target_temp_high # NoTemp}}

\* climate.py _get_supporting_entities(ATTR_SUPPORTED_FEATURES,
\* TARGET_TEMPERATURE_RANGE): the members with a state that have the feature
GetRangeSupportingEntities(hs, range_ids) == GetSupportingEntities(hs) \cap range_ids

\* hass.services.async_call of a setter, as the log keeps it
LoggedCall(service, ids, kwargs, target) ==
    [service |-> service, ids |-> ids, hvac_mode |-> kwargs.hvac_mode,
     temperature |-> kwargs.temperature, target_temp_low |-> kwargs.target_temp_low,
     target_temp_high |-> kwargs.target_temp_high, fan_mode |-> kwargs.fan_mode,
     target |-> target]

\* service_call.py execute_set_temperature lines 183-187: every value of the
\* command is the group's value already
TemperatureOk(kwargs, attr_low, attr_high) ==
    /\ kwargs.temperature = NoTemp \/ attr["temperature"] = kwargs.temperature
    /\ kwargs.target_temp_low = NoTemp \/ attr_low = kwargs.target_temp_low
    /\ kwargs.target_temp_high = NoTemp \/ attr_high = kwargs.target_temp_high

\* a range call for a command that has one of the two bounds
RangeInKwargsEither(kwargs) ==
    kwargs.target_temp_low # NoTemp \/ kwargs.target_temp_high # NoTemp

\* service_call.py execute_set_temperature line 208: the range call is made
\* for a command that has both bounds
RangeInKwargs(kwargs) ==
    kwargs.target_temp_low # NoTemp /\ kwargs.target_temp_high # NoTemp

InitSetter ==
    /\ sync_mode = "standard"
    /\ varied = "temperature"
    /\ hvac_mode_strategy = "normal"
    /\ target_avg_calc = "mean"
    /\ sync_retry_attempts = 0
    /\ retry_attempts = 0
    /\ tie_first = <<"low", "high">>
    /\ hass_states \in [Members -> UNION {{MemberState(m, st, t, "low") :
                                              st \in HvacModes, t \in Temps}
                                          \cup {UnavailableState(m)} : m \in Members}]
    /\ \A m \in Members : hass_states[m].entity_id = m
    /\ target_hvac_mode \in HvacModes \cup {None}
    /\ states = ValidStates(hass_states)
    /\ attr = IF states # <<>>
              THEN GroupAttributes(states, hvac_mode_strategy, target_hvac_mode,
                                   target_avg_calc, tie_first)
              ELSE [key \in KeySet |-> NoneOf(key)]
    /\ available = (states # <<>>)
    /\ context = NoContext
    /\ last_group_context = NoContext
    /\ snapshot_attrs = [key \in {} |-> None]
    /\ snapshot_states = NoStates
    /\ active_tasks = {}
    /\ sync_retry_counter = 0
    /\ last_sync_attempt = None
    /\ internal_change_start_time = None
    /\ enf = [t \in TaskIds |-> NoTask]
    /\ children = [t \in TaskIds |-> NoChildren]
    /\ user_call = NoCall
    /\ user_commands = 0
    /\ ctx_seen = [m \in Members |-> {}]
    /\ last_call = NoSetterCall
    /\ member_changes = 0
    /\ retry = NoRetry
    /\ debounce = NoDebounce
    /\ reducer = NoReducer
    /\ window_control = NoWindow
    /\ service_call = NoServiceCall
    /\ \E c \in SetterCommands, range \in {<<NoTemp, NoTemp>>, <<18, 24>>},
          range_ids \in {{}, {1}, Members} :
          setter = [pc |-> "start", service |-> c.service, kwargs |-> c.kwargs,
                    attr_low |-> range[1], attr_high |-> range[2],
                    range_ids |-> range_ids, log |-> <<>>, result |-> "none"]

\* what a run of an executor leaves alone
setter_frame ==
    <<sync_mode, hvac_mode_strategy, target_avg_calc, sync_retry_attempts, retry_attempts,
      tie_first, hass_states, context, last_group_context, enf, children, user_call,
      user_commands, ctx_seen, last_call, member_changes, varied, retry, debounce, reducer, window_control, service_call>>

SetterReturns(result) == [setter EXCEPT !.pc = "done", !.result = result]

\* service_call.py execute_set_hvac_mode and execute_set_fan_mode, whole
SetterModeCall ==
    /\ setter.pc = "start"
    /\ setter.service \in {"set_hvac_mode", "set_fan_mode"}
    /\ LET key == IF setter.service = "set_hvac_mode" THEN "hvac_mode" ELSE "fan_mode"
           value == setter.kwargs[key]
           outcome == Executor(key, value)
           ids == GetSupportingEntities(hass_states)
       IN  \/ /\ outcome # "call"
              /\ setter' = SetterReturns(ResultOf(outcome = "applied"))
              /\ GroupUnchanged
           \/ /\ outcome = "call"
              /\ key = "hvac_mode"
              /\ target_hvac_mode' = value
              /\ ApplyUpdate(UpdateForHvacCall(value, FALSE, FALSE))
              /\ setter' = [SetterReturns("False") EXCEPT
                               !.log = Append(@, LoggedCall(setter.service, ids,
                                                            setter.kwargs, value))]
           \/ /\ outcome = "call"
              /\ key # "hvac_mode"
              /\ GroupUnchanged
              /\ setter' = [SetterReturns("False") EXCEPT
                               !.log = Append(@, LoggedCall(setter.service, ids,
                                                            setter.kwargs, target_hvac_mode))]
    /\ UNCHANGED setter_frame

\* service_call.py execute_set_temperature lines 180-192.  The keywords are
\* never empty (the context is one of them).  With an hvac_mode in the
\* command, execute_set_hvac_mode(hvac_mode, **kwargs) gets the argument
\* twice: the call raises a TypeError before anything is done, which
\* execute_with_retry logs.
SetterTemperatureStart ==
    /\ setter.pc = "start"
    /\ setter.service = "set_temperature"
    /\ setter' = IF TemperatureOk(setter.kwargs, setter.attr_low, setter.attr_high)
                 THEN SetterReturns("True")
                 ELSE IF setter.kwargs.hvac_mode # None
                 THEN SetterReturns("raise")
                 ELSE [setter EXCEPT !.pc = "temperature"]
    /\ GroupUnchanged
    /\ UNCHANGED setter_frame

\* service_call.py execute_set_temperature lines 194-206
SetterTemperatureCall ==
    /\ setter.pc = "temperature"
    /\ LET ids == GetSupportingEntities(hass_states)
           data == [NoKwargs EXCEPT !.temperature = setter.kwargs.temperature]
       IN  setter' = [setter EXCEPT
                         !.pc = "range",
                         !.log = IF setter.kwargs.temperature # NoTemp /\ ids # {}
                                 THEN Append(@, LoggedCall(setter.service, ids, data,
                                                           target_hvac_mode))
                                 ELSE @]
    /\ GroupUnchanged
    /\ UNCHANGED setter_frame

\* service_call.py execute_set_temperature lines 208-223
SetterRangeCall ==
    /\ setter.pc = "range"
    /\ LET ids == GetRangeSupportingEntities(hass_states, setter.range_ids)
           data == [NoKwargs EXCEPT !.target_temp_low = setter.kwargs.target_temp_low,
                                    !.target_temp_high = setter.kwargs.target_temp_high]
       IN  setter' = [SetterReturns("False") EXCEPT
                         !.log = IF RangeInKwargs(setter.kwargs) /\ ids # {}
                                 THEN Append(@, LoggedCall(setter.service, ids, data,
                                                           target_hvac_mode))
                                 ELSE @]
    /\ GroupUnchanged
    /\ UNCHANGED setter_frame

NextSetter ==
    \/ SetterModeCall
    \/ SetterTemperatureStart
    \/ SetterTemperatureCall
    \/ SetterRangeCall

SpecSetter == InitSetter /\ [][NextSetter]_vars


\* C11: in a command pass in which the target hvac mode is OFF the only
\* setter call issued to the members is the hvac-mode call: no temperature,
\* range or fan call is made while the target is OFF.
C11_OffGuard ==
    \A n \in DOMAIN setter.log :
        setter.log[n].target = "off" => setter.log[n].service = "set_hvac_mode"

\* the member already has the value a call carries (whole degrees: within
\* 0.1 is equal); the members' range bounds are not kept
MemberAtTarget(m, call) ==
    CASE call.service = "set_hvac_mode" -> hass_states[m].state = call.hvac_mode
      [] call.service = "set_fan_mode" -> hass_states[m].fan_mode = call.fan_mode
      [] OTHER -> /\ call.temperature # NoTemp
                  /\ hass_states[m].temperature = call.temperature

\* C12: every setter call is addressed to exactly the members that support
\* the attribute and do not have the target value yet; a member that
\* already matches the target is never in the call's entity-id list.
C12_MinimalTargeting ==
    \A n \in DOMAIN setter.log :
        LET call == setter.log[n]
            supporting == IF call.target_temp_low # NoTemp
                          THEN GetRangeSupportingEntities(hass_states, setter.range_ids)
                          ELSE GetSupportingEntities(hass_states)
        IN  call.ids = {m \in supporting : ~MemberAtTarget(m, call)}

\* C13: every set_temperature call that carries target_temp_low carries
\* target_temp_high and the other way round, and a command with only one of
\* the two leads to no range call at all.
C13_RangeNeverSplit ==
    /\ \A n \in DOMAIN setter.log :
          (setter.log[n].target_temp_low # NoTemp) <=> (setter.log[n].target_temp_high # NoTemp)
    /\ (setter.kwargs.target_temp_low = NoTemp \/ setter.kwargs.target_temp_high = NoTemp)
          => \A n \in DOMAIN setter.log :
                /\ setter.log[n].target_temp_low = NoTemp
                /\ setter.log[n].target_temp_high = NoTemp

\* a command with a temperature and both bounds has made its two calls, the
\* second with both bounds
C13_Witness ==
    /\ setter.pc = "done"
    /\ Len(setter.log) = 2
    /\ setter.log[1].temperature # NoTemp
    /\ setter.log[2].target_temp_low # NoTemp
    /\ setter.log[2].target_temp_high # NoTemp


\* a step in which a member reports the value an enforcement call asked of
\* it, under the context of that call
EnforcementEcho ==
    /\ member_changes' # member_changes
    /\ context' = SyncContext

\* C14: a member state change caused by a setter call of the enforcement
\* loop carries a context that the handler takes for the group's own echo;
\* the change starts no enforcement task and, in MIRROR mode, is not adopted
\* (the snapshot is not taken anew for it).
C14_OwnEchoRecognised ==
    [][EnforcementEcho =>
          /\ IsInternalChange(Group')
          /\ \A t \in TaskIds : enf'[t].pc = "start" => enf[t].pc = "start"
          /\ sync_mode = "mirror" => snapshot_states' = snapshot_states]_vars


\* ------------------------------------------ a member turned up by hand
\* A MIRROR group whose members may also be turned up to a third
\* temperature, so that the value a member reports can change twice while
\* an enforcement task waits.
TurnedUp(m) == [hass_states[m] EXCEPT !.temperature = 22]

InitDispatch ==
    /\ sync_mode = "mirror"
    /\ varied = "temperature"
    /\ hvac_mode_strategy = "normal"
    /\ target_avg_calc \in {"min", "max"}
    /\ sync_retry_attempts = MaxSyncRetryAttempts
    /\ retry_attempts = 0
    /\ tie_first = <<"low", "high">>
    /\ GroupAtRest
    /\ retry = NoRetry
    /\ debounce = NoDebounce
    /\ setter = NoSetter
    /\ reducer = NoReducer
    /\ window_control = NoWindow
    /\ service_call = NoServiceCall

NextDispatch ==
    \/ Next
    \/ \E m \in Members :
          /\ hass_states[m].state \notin InvalidStates
          /\ hass_states[m].temperature < 22
          /\ MemberChange(m, TurnedUp(m), ExtContext)

SpecDispatch == InitDispatch /\ [][NextDispatch]_vars

\* task t, back from the settle delay of an earlier attempt, makes the
\* setter call of its gathered call for key in this step
IssuesCall(t, key) ==
    /\ enf[t].pc = "gather"
    /\ enf[t].attempt >= 1
    /\ children[t][key].pc \in {"ready", "sleep"}
    /\ children'[t][key] # children[t][key]
    /\ Executor(key, children[t][key].value) = "call"

\* C15: an enforcement task uses the target values captured when it was
\* dispatched: every setter call it makes after a settle delay carries, for
\* its key, the value that was pending for that key when the task was
\* created, whatever the members reported while the task was suspended.
C15_DispatchTimeView ==
    [][\A t \in TaskIds, key \in KeySet :
          IssuesCall(t, key) =>
              \E n \in DOMAIN enf[t].view :
                  /\ enf[t].view[n].key = key
                  /\ enf[t].view[n].value = children[t][key].value]_vars


\* C16: after every group state update the group is available exactly when
\* at least one member has a state that is neither unavailable nor unknown,
\* and the states the group works on are those of exactly the members that
\* respond now: a member that dropped out and reports a valid state again
\* is back in the next update.
C16_AnyMemberResponds ==
    states # NoStates =>
        /\ available <=> \E m \in Members : hass_states[m].state \notin InvalidStates
        /\ \A m \in Members :
              (hass_states[m].state \notin InvalidStates)
                  <=> \E i \in DOMAIN states : states[i].entity_id = m

\* one member has dropped out, the other responds, the group is available
C16_Witness ==
    /\ states # NoStates
    /\ member_changes >= 1
    /\ hass_states[1].state = "unavailable"
    /\ hass_states[2].state \notin InvalidStates
    /\ available
    /\ Len(states) = 1


\* a group state update that finds no member with a valid state
UnavailableRound ==
    /\ member_changes' # member_changes
    /\ \A m \in Members : hass_states'[m].state \in InvalidStates

MaxModes == 3
ReducerModes == {"off", "heat", "cool"}
ModeLists == UNION {[1..n -> ReducerModes] : n \in 0..MaxModes}

\* climate.py _determine_hvac_action with OFF looked for before IDLE
DetermineHvacActionOffFirst(current_hvac_actions) ==
    LET active_hvac_actions ==
            SelectSeq(current_hvac_actions,
                      LAMBDA action : action \notin {"off", "idle", None})
        reported == {current_hvac_actions[i] : i \in DOMAIN current_hvac_actions}
    IN  IF active_hvac_actions # <<>> THEN MostCommonFirst(active_hvac_actions)
        ELSE IF "off" \in reported THEN "off"
        ELSE IF "idle" \in reported THEN "idle"
        ELSE None

\* climate.py _determine_hvac_action
DetermineHvacAction(current_hvac_actions) ==
    LET active_hvac_actions ==
            SelectSeq(current_hvac_actions,
                      LAMBDA action : action \notin {"off", "idle", None})
        reported == {current_hvac_actions[i] : i \in DOMAIN current_hvac_actions}
    IN  IF active_hvac_actions # <<>> THEN MostCommonFirst(active_hvac_actions)
        ELSE IF "idle" \in reported THEN "idle"
        ELSE IF "off" \in reported THEN "off"
        ELSE None

\* climate.py async_update_group_state lines 704-705
HvacActionApply ==
    /\ reducer.pc = "hvac_actions"
    /\ reducer' = [reducer EXCEPT
                      !.pc = "hvac_action",
                      !.result = DetermineHvacAction(reducer.actions)]
    /\ UNCHANGED <<group_vars, retry, debounce, setter, window_control, service_call>>

\* climate.py async_update_group_state lines 746-750 and 761-765: the limits
\* of the group, reduced from the limits its valid members report; limits is
\* the list of the members' limits in member order and is not empty
GroupLimits(limits) ==
    [min_temp     |-> SeqMin([i \in DOMAIN limits |-> limits[i].min_temp]),
     max_temp     |-> SeqMax([i \in DOMAIN limits |-> limits[i].max_temp]),
     min_humidity |-> SeqMax([i \in DOMAIN limits |-> limits[i].min_humidity]),
     max_humidity |-> SeqMin([i \in DOMAIN limits |-> limits[i].max_humidity])]

\* climate.py async_update_group_state, the limits of one update
LimitsApply ==
    /\ reducer.pc = "limits"
    /\ reducer' = [reducer EXCEPT !.pc = "group_limits",
                                  !.result = GroupLimits(reducer.limits)]
    /\ UNCHANGED <<group_vars, retry, debounce, setter, window_control, service_call>>

\* a rounding that cuts the value down to the step below it
MeanRoundDown(value, round_option) ==
    IF value = NoTemp THEN NoTemp
    ELSE CASE round_option = "half" -> ((2 * value) \div 100) * 50
           [] round_option = "integer" -> (value \div 100) * 100
           [] OTHER -> value

\* climate.py _mean_round, on values in hundredths: round(value * 2) / 2 and
\* round(value) with Python's rounding of a half to the even neighbour
MeanRound(value, round_option) ==
    IF value = NoTemp THEN NoTemp
    ELSE CASE round_option = "half" -> RoundHalfEven(2 * value, 100) * 50
           [] round_option = "integer" -> RoundHalfEven(value, 100) * 100
           [] OTHER -> value

\* climate.py async_update_group_state lines 710-729 (753-759 for the
\* humidity): the current value is the aggregate as it is, the target value
\* is the aggregate rounded
RoundApply ==
    /\ reducer.pc = "aggregates"
    /\ reducer' = [reducer EXCEPT
                      !.pc = "rounded",
                      !.result = [current_temperature |-> reducer.current,
                                  target_temperature |->
                                      MeanRound(reducer.target, reducer.round_option)]]
    /\ UNCHANGED <<group_vars, retry, debounce, setter, window_control, service_call>>

\* a reduction that takes the other strategy for the feature bitmasks
ReduceAttributesSwapped(attributes, feature_strategy, is_features) ==
    LET Bits(x) == {b \in 0..2 : (x \div (2 ^ b)) % 2 = 1}
        valid_attributes == SelectSeq(attributes, LAMBDA a : a # {})
        And[i \in 1..Len(attributes)] ==
            IF i = 1 THEN Bits(attributes[1]) ELSE And[i - 1] \cap Bits(attributes[i])
        Or[i \in 1..Len(attributes)] ==
            IF i = 1 THEN Bits(attributes[1]) ELSE Or[i - 1] \cup Bits(attributes[i])
        Common[i \in 1..Len(valid_attributes)] ==
            IF i = 1 THEN valid_attributes[1] ELSE Common[i - 1] \cap valid_attributes[i]
        All[i \in 1..Len(valid_attributes)] ==
            IF i = 1 THEN valid_attributes[1] ELSE All[i - 1] \cup valid_attributes[i]
        Mask(bits) == (IF 0 \in bits THEN 1 ELSE 0)
                      + (IF 1 \in bits THEN 2 ELSE 0)
                      + (IF 2 \in bits THEN 4 ELSE 0)
    IN  IF is_features
        THEN (IF feature_strategy = "intersection"
              THEN Mask(Or[Len(attributes)])
              ELSE Mask(And[Len(attributes)]))
        ELSE IF valid_attributes = <<>> THEN {}
        ELSE IF feature_strategy = "intersection"
        THEN Common[Len(valid_attributes)]
        ELSE All[Len(valid_attributes)]

\* climate.py _reduce_attributes.  is_features stands for the test of the
\* first element's type: a list of feature bitmasks (of three bits) is
\* reduced with & or |, a list of mode lists, each taken as the set of its
\* modes, with the set intersection or union of the lists that are not
\* empty.  The result for modes is the set of the modes of the list the code
\* returns.
ReduceAttributes(attributes, feature_strategy, is_features) ==
    LET Bits(x) == {b \in 0..2 : (x \div (2 ^ b)) % 2 = 1}
        valid_attributes == SelectSeq(attributes, LAMBDA a : a # {})
        And[i \in 1..Len(attributes)] ==
            IF i = 1 THEN Bits(attributes[1]) ELSE And[i - 1] \cap Bits(attributes[i])
        Or[i \in 1..Len(attributes)] ==
            IF i = 1 THEN Bits(attributes[1]) ELSE Or[i - 1] \cup Bits(attributes[i])
        Common[i \in 1..Len(valid_attributes)] ==
            IF i = 1 THEN valid_attributes[1] ELSE Common[i - 1] \cap valid_attributes[i]
        All[i \in 1..Len(valid_attributes)] ==
            IF i = 1 THEN valid_attributes[1] ELSE All[i - 1] \cup valid_attributes[i]
        Mask(bits) == (IF 0 \in bits THEN 1 ELSE 0)
                      + (IF 1 \in bits THEN 2 ELSE 0)
                      + (IF 2 \in bits THEN 4 ELSE 0)
    IN  IF is_features
        THEN (IF feature_strategy = "intersection"
              THEN Mask(And[Len(attributes)])
              ELSE Mask(Or[Len(attributes)]))
        ELSE IF valid_attributes = <<>> THEN {}
        ELSE IF feature_strategy = "intersection"
        THEN Common[Len(valid_attributes)]
        ELSE All[Len(valid_attributes)]

\* climate.py async_update_group_state: one list of member attributes reduced
\* under each of the two feature strategies
ReduceApply ==
    /\ reducer.pc = "attributes"
    /\ reducer' = [reducer EXCEPT
                      !.pc = "reduced",
                      !.result = [feature_strategy \in {"intersection", "union"} |->
                                     ReduceAttributes(reducer.attributes, feature_strategy,
                                                      reducer.is_features)]]
    /\ UNCHANGED <<group_vars, retry, debounce, setter, window_control, service_call>>

\* state.py TargetState.update: the target state with the fields named in
\* kwargs replaced, as a new record; a target state is a record over its
\* fields, NoneOf(key) standing for a field that is None
TargetUpdate(t, kwargs) ==
    [key \in DOMAIN t |-> IF key \in DOMAIN kwargs THEN kwargs[key] ELSE t[key]]

\* a dictionary that keeps the fields that are None
ToDictWithNone(t) == t

\* state.py TargetState.to_dict without an attribute list: the fields that
\* are not None
ToDict(t) ==
    [key \in {k \in DOMAIN t : t[k] # NoneOf(k)} |-> t[key]]

\* state.py: t.update(**delta) and to_dict() of the result
TargetUpdateApply ==
    /\ reducer.pc = "target"
    /\ reducer' = [reducer EXCEPT
                      !.pc = "updated",
                      !.result = [updated |-> TargetUpdate(reducer.t, reducer.delta),
                                  dict |-> ToDict(TargetUpdate(reducer.t, reducer.delta))]]
    /\ UNCHANGED <<group_vars, retry, debounce, setter, window_control, service_call>>

\* state.py ChangeState.from_event for an event of the member "climate.a".
\* new_state is the member's state with the attributes it reports, or
\* NoStates[1] for an event without a new state; the values of temperature
\* are in hundredths, FLOAT_TOLERANCE is 10 of them.  The loop runs over
\* the fields of TargetState, the last_updated ones included, which a member
\* never reports; a field without a deviation keeps the default of the
\* dataclass, None, and 0.0 for last_updated_timestamp.
FromEvent(new_state, target_state) ==
    LET default == [key \in DOMAIN target_state |->
                       IF key = "last_updated_timestamp" THEN 0 ELSE NoneOf(key)]
        member_val(key) ==
            IF key = "hvac_mode" THEN new_state.state
            ELSE IF key \in DOMAIN new_state THEN new_state[key]
            ELSE NoneOf(key)
        within_tolerance(val1, val2) ==
            /\ val1 # NoTemp
            /\ val2 # NoTemp
            /\ (IF val1 > val2 THEN val1 - val2 ELSE val2 - val1) < 10
        deviates(key) ==
            /\ target_state[key] # NoneOf(key)
            /\ member_val(key) # target_state[key]
            /\ ~(key = "temperature" /\ within_tolerance(member_val(key), target_state[key]))
        fields == IF new_state = NoStates[1] THEN default
                  ELSE [key \in DOMAIN target_state |->
                           IF deviates(key) THEN member_val(key) ELSE default[key]]
    IN  [key \in DOMAIN target_state \cup {"entity_id"} |->
            IF key = "entity_id" THEN "climate.a" ELSE fields[key]]

\* state.py ChangeState.from_event and ChangeState.attributes: the change
\* state of one event and its dictionary without the entity_id
FromEventApply ==
    /\ reducer.pc = "event"
    /\ reducer' =
          LET change == FromEvent(reducer.new_state, reducer.t)
          IN  [reducer EXCEPT
                  !.pc = "change",
                  !.result = [change |-> change,
                              attributes |->
                                  [key \in DOMAIN ToDict(change) \ {"entity_id"} |->
                                      change[key]]]]
    /\ UNCHANGED <<group_vars, retry, debounce, setter, window_control, service_call>>

InitReducer ==
    /\ sync_mode = "standard"
    /\ varied = "hvac_mode"
    /\ hvac_mode_strategy = "normal"
    /\ target_avg_calc = "mean"
    /\ sync_retry_attempts = 0
    /\ retry_attempts = 0
    /\ tie_first = <<"low", "high">>
    /\ GroupAtRest
    /\ retry = NoRetry
    /\ debounce = NoDebounce
    /\ setter = NoSetter
    /\ window_control = NoWindow
    /\ service_call = NoServiceCall
    /\ \/ \E modes \in ModeLists, target \in ReducerModes \cup {None} :
             reducer = [pc |-> "args", modes |-> modes, target |-> target,
                        result |-> [strategy \in HvacModeStrategies |-> None]]
       \/ \E n \in 0..MaxModes :
             \E actions \in [1..n -> {"heating", "cooling", "idle", "off", None}] :
                reducer = [pc |-> "hvac_actions", actions |-> actions,
                           result |-> None]
       \/ \E n \in 1..NumMembers :
             \E limits \in [1..n -> [min_temp : {5, 7}, max_temp : {30, 35},
                                     min_humidity : {30, 35}, max_humidity : {90, 99}]] :
                reducer = [pc |-> "limits", limits |-> limits, result |-> None]
       \/ \E target \in {2100 + 5 * k : k \in 0..20} \cup {NoTemp},
             current \in {2065, 2125},
             round_option \in {"none", "half", "integer"} :
             reducer = [pc |-> "aggregates", target |-> target, current |-> current,
                        round_option |-> round_option, result |-> None]
       \/ \E n \in 0..MaxModes :
             \E attributes \in [1..n -> SUBSET ReducerModes] :
                reducer = [pc |-> "attributes", attributes |-> attributes,
                           is_features |-> FALSE, result |-> None]
       \/ \E n \in 1..MaxModes :
             \E attributes \in [1..n -> 0..7] :
                reducer = [pc |-> "attributes", attributes |-> attributes,
                           is_features |-> TRUE, result |-> None]
       \/ \E t \in [hvac_mode : {None, "heat"}, temperature : {NoTemp, 20},
                     fan_mode : {None, "low"}, last_updated_timestamp : {0}],
             values \in [hvac_mode : {None, "off"}, temperature : {NoTemp, 21},
                         fan_mode : {None, "high"}],
             keys \in SUBSET {"hvac_mode", "temperature", "fan_mode"} :
             reducer = [pc |-> "target", t |-> t,
                        delta |-> [key \in keys |-> values[key]], result |-> None]
       \/ \E t \in [hvac_mode : {None, "heat"}, temperature : {NoTemp, 2000},
                     fan_mode : {None, "low"}, last_updated_timestamp : {0, 5}],
             new_state \in {NoStates[1]} \cup
                           {MemberState(1, state, temperature, fan_mode) :
                               state \in HvacModes,
                               temperature \in {NoTemp, 2000, 2005, 2050},
                               fan_mode \in FanModes \cup {None}} :
             reducer = [pc |-> "event", t |-> t, new_state |-> new_state,
                        result |-> None]

\* climate.py async_update_group_state line 691, under each strategy
DetermineApply ==
    /\ reducer.pc = "args"
    /\ reducer' = [reducer EXCEPT
                      !.pc = "done",
                      !.result = [strategy \in HvacModeStrategies |->
                                     DetermineHvacMode(reducer.modes, strategy,
                                                       reducer.target)]]
    /\ UNCHANGED <<group_vars, retry, debounce, setter, window_control, service_call>>

NextReducer ==
    \/ DetermineApply
    \/ HvacActionApply
    \/ LimitsApply
    \/ RoundApply
    \/ ReduceApply
    \/ TargetUpdateApply
    \/ FromEventApply

SpecReducer == InitReducer /\ [][NextReducer]_vars

\* mode is the most frequent mode of the list that is not OFF; among the
\* modes as frequent as it, it occurs first
PluralityFirst(modes, mode) ==
    /\ mode # "off"
    /\ \E i \in DOMAIN modes :
          /\ modes[i] = mode
          /\ \A j \in DOMAIN modes :
                modes[j] # "off" =>
                    \/ Count(modes, modes[j]) < Count(modes, mode)
                    \/ Count(modes, modes[j]) = Count(modes, mode) /\ i <= j

\* C18: under the normal strategy, for a non-empty list of member modes, the
\* group hvac_mode is OFF exactly when every member is OFF, and otherwise
\* the most frequent mode that is not OFF, the first in member order among
\* those as frequent.
C18_NormalStrategy ==
    (reducer.pc = "done" /\ reducer.modes # <<>>) =>
        LET modes == reducer.modes
            mode == reducer.result["normal"]
            all_off == \A i \in DOMAIN modes : modes[i] = "off"
        IN  /\ mode = "off" <=> all_off
            /\ ~all_off => PluralityFirst(modes, mode)

\* cool and heat are as frequent, cool comes first and is the group's mode
C18_Witness ==
    /\ reducer.pc = "done"
    /\ reducer.modes = <<"off", "cool", "heat">>
    /\ reducer.result["normal"] = "cool"

\* C19: under the off_priority strategy, for a non-empty list of member
\* modes, the group hvac_mode is OFF exactly when at least one member is
\* OFF, whatever the others report, and otherwise the most frequent mode.
C19_OffPriorityStrategy ==
    (reducer.pc = "done" /\ reducer.modes # <<>>) =>
        LET modes == reducer.modes
            mode == reducer.result["off_priority"]
            any_off == \E i \in DOMAIN modes : modes[i] = "off"
        IN  /\ mode = "off" <=> any_off
            /\ ~any_off => PluralityFirst(modes, mode)

\* three members, off, heat and heat: the group is off
C19_Witness ==
    /\ reducer.pc = "done"
    /\ reducer.modes = <<"off", "heat", "heat">>
    /\ reducer.result["off_priority"] = "off"

\* C20: for every list of member modes the auto strategy gives the result
\* of off_priority when the target hvac mode is set and not OFF, and the
\* result of normal when the target hvac mode is OFF or not set.
C20_AutoStrategy ==
    reducer.pc = "done" =>
        reducer.result["auto"] =
            IF reducer.target \notin {"off", None}
            THEN reducer.result["off_priority"]
            ELSE reducer.result["normal"]

\* the target is heat and one member of three is off: auto gives off as
\* off_priority does, where normal gives heat
C20_Witness ==
    /\ reducer.pc = "done"
    /\ reducer.target = "heat"
    /\ reducer.modes = <<"off", "heat", "heat">>
    /\ reducer.result["auto"] = "off"
    /\ reducer.result["normal"] = "heat"

\* C21: for every list of member actions the group's hvac_action is the most
\* frequent of the actions other than OFF, IDLE and None when a member
\* reports one; otherwise IDLE when a member reports IDLE; otherwise OFF when
\* a member reports OFF; otherwise None.
C21_HvacActionPriority ==
    reducer.pc = "hvac_action" =>
        LET actions == reducer.actions
            reported == {actions[i] : i \in DOMAIN actions}
            active == reported \ {"off", "idle", None}
        IN  IF active # {}
            THEN /\ reducer.result \in active
                 /\ \A action \in active :
                       Count(actions, action) <= Count(actions, reducer.result)
            ELSE IF "idle" \in reported THEN reducer.result = "idle"
            ELSE IF "off" \in reported THEN reducer.result = "off"
            ELSE reducer.result = None

\* one member is off and two are idle or unreported: the group is idle
C21_Witness ==
    /\ reducer.pc = "hvac_action"
    /\ reducer.actions = <<"off", None, "idle">>
    /\ reducer.result = "idle"

C23_TightestCommonRange ==
    reducer.pc = "group_limits" =>
        LET limits == reducer.limits
            group == reducer.result
        IN  /\ group.min_temp = SeqMax([i \in DOMAIN limits |-> limits[i].min_temp])
            /\ group.max_temp = SeqMin([i \in DOMAIN limits |-> limits[i].max_temp])
            /\ group.min_humidity = SeqMax([i \in DOMAIN limits |-> limits[i].min_humidity])
            /\ group.max_humidity = SeqMin([i \in DOMAIN limits |-> limits[i].max_humidity])
            /\ \A i \in DOMAIN limits :
                  /\ \A v \in group.min_temp..group.max_temp :
                        v \in limits[i].min_temp..limits[i].max_temp
                  /\ \A v \in group.min_humidity..group.max_humidity :
                        v \in limits[i].min_humidity..limits[i].max_humidity

\* C24: for every aggregated target value, in hundredths, the half-step
\* rounding gives a multiple of 0.5 none of which is nearer to the value
\* (21.65 gives 21.5), the integer rounding gives a whole number none of
\* which is nearer, and the option none gives the value itself; the current
\* (measured) value is never rounded.
C24_Rounding ==
    (reducer.pc = "rounded" /\ reducer.target # NoTemp) =>
        LET value == reducer.target
            rounded == reducer.result.target_temperature
            Distance(a, b) == IF a > b THEN a - b ELSE b - a
            NearestOf(step) ==
                /\ rounded % step = 0
                /\ \A k \in 0..(2300 \div step) :
                      Distance(rounded, value) <= Distance(k * step, value)
        IN  /\ reducer.round_option = "half" => NearestOf(50)
            /\ reducer.round_option = "integer" => NearestOf(100)
            /\ reducer.round_option = "none" => rounded = value
            /\ reducer.result.current_temperature = reducer.current

\* 21.65 is rounded to 21.5 and the current temperature of 20.65 is kept
C24_Witness ==
    /\ reducer.pc = "rounded"
    /\ reducer.round_option = "half"
    /\ reducer.target = 2165
    /\ reducer.result.target_temperature = 2150
    /\ reducer.result.current_temperature = 2065

\* C25: for every list of member mode lists the modes the intersection
\* strategy gives are among those the union strategy gives, and for every
\* list of member feature bitmasks every bit set in the result of the
\* intersection strategy is set in the result of the union strategy.
C25_StrategyMonotone ==
    reducer.pc = "reduced" =>
        IF reducer.is_features
        THEN \A b \in 0..2 :
                (reducer.result["intersection"] \div (2 ^ b)) % 2 = 1 =>
                    (reducer.result["union"] \div (2 ^ b)) % 2 = 1
        ELSE reducer.result["intersection"] \subseteq reducer.result["union"]

\* two members with heat in common: the intersection is heat, the union
\* the three modes
C25_Witness ==
    /\ reducer.pc = "reduced"
    /\ ~reducer.is_features
    /\ reducer.attributes = <<{"heat", "cool"}, {"off", "heat"}>>
    /\ reducer.result["intersection"] = {"heat"}
    /\ reducer.result["union"] = {"off", "heat", "cool"}

\* C26 as stated: for every target state t and every delta over its fields,
\* a delta that sets a field to None included, the dictionary of
\* t.update(**delta) has every field of the delta with the delta's value,
\* every field not in the delta is as in t, and t is as it was.
C26_RoundTrip ==
    [][reducer.pc = "target" =>
          LET t == reducer.t
              delta == reducer.delta
              updated == reducer'.result.updated
              dict == reducer'.result.dict
          IN  /\ \A key \in DOMAIN delta :
                    key \in DOMAIN dict /\ dict[key] = delta[key]
              /\ \A key \in DOMAIN t \ DOMAIN delta : updated[key] = t[key]
              /\ reducer'.t = t]_vars

\* C26: the dictionary of t.update(**delta) has every field the delta sets
\* to a value, with that value, and has no entry for a field the delta sets
\* to None; every field not in the delta is as in t, in the updated state
\* and, when it is not None, in the dictionary; t is as it was.
C26_RoundTripNotNone ==
    [][reducer.pc = "target" =>
          LET t == reducer.t
              delta == reducer.delta
              updated == reducer'.result.updated
              dict == reducer'.result.dict
          IN  /\ \A key \in DOMAIN delta :
                    IF delta[key] # NoneOf(key)
                    THEN key \in DOMAIN dict /\ dict[key] = delta[key]
                    ELSE key \notin DOMAIN dict
              /\ \A key \in DOMAIN t \ DOMAIN delta :
                    /\ updated[key] = t[key]
                    /\ key \in DOMAIN dict <=> t[key] # NoneOf(key)
                    /\ key \in DOMAIN dict => dict[key] = t[key]
              /\ reducer'.t = t]_vars

\* a delta that sets the temperature to None and the fan mode to high, on a
\* target state with a temperature: the dictionary has the fan mode and no
\* temperature
C26_Witness ==
    /\ reducer.pc = "updated"
    /\ reducer.t.temperature = 20
    /\ DOMAIN reducer.delta = {"temperature", "fan_mode"}
    /\ reducer.delta["temperature"] = NoTemp
    /\ reducer.delta["fan_mode"] = "high"
    /\ reducer.result.updated.temperature = NoTemp
    /\ "temperature" \notin DOMAIN reducer.result.dict
    /\ reducer.result.dict["fan_mode"] = "high"

\* C27: for every target state and every new state of a member, what
\* ChangeState.from_event contains besides the entity_id is an attribute
\* exactly when the target has a value for it and the value the member
\* reports differs from it, a temperature less than 0.1 away counting as
\* the same, with the member's value; and it contains nothing when the
\* event has no new state.
C27_ExactlyTheDeviation ==
    reducer.pc = "change" =>
        LET target_state == reducer.t
            new_state == reducer.new_state
            attributes == reducer.result.attributes
            member_val(key) == IF key = "hvac_mode" THEN new_state.state ELSE new_state[key]
            differs(key) ==
                IF key = "temperature"
                THEN \/ member_val(key) - target_state[key] >= 10
                     \/ target_state[key] - member_val(key) >= 10
                ELSE member_val(key) # target_state[key]
        IN  IF new_state = NoStates[1]
            THEN DOMAIN attributes = {}
            ELSE /\ DOMAIN attributes \subseteq {"hvac_mode", "temperature", "fan_mode"}
                 /\ \A key \in {"hvac_mode", "temperature", "fan_mode"} :
                       member_val(key) # NoneOf(key) =>
                           /\ key \in DOMAIN attributes <=>
                                 (target_state[key] # NoneOf(key) /\ differs(key))
                           /\ key \in DOMAIN attributes =>
                                 attributes[key] = member_val(key)

\* ------------------------------------------------------------ a cold start
\* The group is constructed while none of its members is available and
\* nothing is restored (climate.py __init__ lines 432-435); the members come
\* up one after the other and change their target temperature, and the
\* user may switch the group off.
InitColdStart ==
    /\ sync_mode \in SyncModes
    /\ varied = "temperature"
    /\ hvac_mode_strategy = "normal"
    /\ target_avg_calc = "max"
    /\ sync_retry_attempts = 0
    /\ retry_attempts = 0
    /\ tie_first = <<"low", "high">>
    /\ hass_states = [m \in Members |-> UnavailableState(m)]
    /\ states = NoStates
    /\ attr = [key \in KeySet |-> NoneOf(key)]
    /\ available = FALSE
    /\ target_hvac_mode = None
    /\ context = NoContext
    /\ last_group_context = NoContext
    /\ snapshot_attrs = [key \in {} |-> None]
    /\ snapshot_states = NoStates
    /\ active_tasks = {}
    /\ sync_retry_counter = 0
    /\ last_sync_attempt = None
    /\ internal_change_start_time = None
    /\ enf = [t \in TaskIds |-> NoTask]
    /\ children = [t \in TaskIds |-> NoChildren]
    /\ user_call = NoCall
    /\ user_commands = 0
    /\ ctx_seen = [m \in Members |-> {}]
    /\ last_call = NoSetterCall
    /\ member_changes = 0
    /\ retry = NoRetry
    /\ debounce = NoDebounce
    /\ setter = NoSetter
    /\ reducer = NoReducer
    /\ window_control = NoWindow
    /\ service_call = NoServiceCall

NextColdStart ==
    \/ Next
    \/ UserCommand("hvac_mode", "off")

SpecColdStart == InitColdStart /\ [][NextColdStart]_vars

\* C28: after a start with every member unavailable and nothing restored,
\* once an update has found all configured members available and while no
\* user command has been issued, the target hvac mode is the hvac mode of
\* the aggregate: the update has seeded the target state.
C28_ColdStartSeeding ==
    (states # NoStates /\ Len(states) = NumMembers /\ user_commands = 0) =>
        target_hvac_mode = attr["hvac_mode"]

\* C29: while the target hvac mode is OFF, no step of a group in lock or
\* mirror mode makes an enforcement call of the temperature setter: a
\* temperature a member reports is neither sent back (lock) nor handed on
\* to the other members (mirror).
C29_SetpointsIgnoredWhileOff ==
    [][(target_hvac_mode = "off" /\ sync_mode \in {"lock", "mirror"}) =>
          ~(/\ last_call' # last_call
            /\ last_call'.by = "sync"
            /\ last_call'.key = "temperature")]_vars

\* ------------------------------------------------------ window control
\* The WindowControlHandler and the target state of its group: the actions
\* it executes when the window logic asks for heating off ("off", a window
\* is open) or on ("on", the windows are closed).  A state that is None is
\* the record of the fields that are all None.
InitWindow ==
    /\ sync_mode = "standard"
    /\ varied = "hvac_mode"
    /\ hvac_mode_strategy = "normal"
    /\ target_avg_calc = "mean"
    /\ sync_retry_attempts = 0
    /\ retry_attempts = 0
    /\ tie_first = <<"low", "high">>
    /\ GroupAtRest
    /\ retry = NoRetry
    /\ debounce = NoDebounce
    /\ setter = NoSetter
    /\ reducer = NoReducer
    /\ service_call = NoServiceCall
    /\ \E target_state \in [hvac_mode : {None, "off", "heat"}, temperature : {NoTemp, 20},
                            fan_mode : {None, "low"}, last_updated_timestamp : {0}],
          restore_attrs \in SUBSET {"hvac_mode", "temperature", "fan_mode"},
          default_hvac_mode \in {None, "heat"} :
          window_control =
              [control_state |-> "on",
               target_state |-> target_state,
               restore_state |-> [key \in DOMAIN target_state |-> NoneOf(key)],
               \* state.py FilterState.from_keys and FilterState.to_dict
               filter_state |-> [key \in {"hvac_mode", "temperature", "fan_mode"} |->
                                    key \in restore_attrs],
               default_hvac_mode |-> default_hvac_mode]

\* an _execute_action that saves the target state whenever a window opens
ExecuteActionOnAlwaysSaving(w, mode) ==
    LET current_hvac == w.target_state.hvac_mode
        target_state == w.target_state
        restore_state == w.restore_state
        filter_state == w.filter_state
        none_state == [key \in DOMAIN target_state |-> NoneOf(key)]
        filtered_data ==
            [key \in {k \in DOMAIN ToDict(restore_state) :
                         k \in DOMAIN filter_state /\ filter_state[k]} |->
                restore_state[key]]
    IN  IF mode = "on" /\ current_hvac # "off"
        THEN w
        ELSE IF mode = "off"
        THEN [w EXCEPT !.restore_state = target_state,
                       !.target_state = TargetUpdate(target_state, [hvac_mode |-> "off"]),
                       !.control_state = mode]
        ELSE IF restore_state = none_state
             THEN [w EXCEPT !.target_state =
                                IF w.default_hvac_mode # None
                                THEN TargetUpdate(target_state,
                                                  [hvac_mode |-> w.default_hvac_mode])
                                ELSE target_state,
                            !.control_state = mode]
             ELSE [w EXCEPT !.target_state = TargetUpdate(target_state, filtered_data),
                            !.restore_state = none_state,
                            !.control_state = mode]

\* window_control.py _execute_action on the handler and target state w: the
\* early return, the snapshot, the restore (or the default hvac mode), or
\* nothing but the control state
ExecuteActionOn(w, mode) ==
    LET current_hvac == w.target_state.hvac_mode
        target_state == w.target_state
        restore_state == w.restore_state
        filter_state == w.filter_state
        none_state == [key \in DOMAIN target_state |-> NoneOf(key)]
        filtered_data ==
            [key \in {k \in DOMAIN ToDict(restore_state) :
                         k \in DOMAIN filter_state /\ filter_state[k]} |->
                restore_state[key]]
    IN  IF mode = "on" /\ current_hvac # "off"
        THEN w
        ELSE IF mode = "off" /\ current_hvac # "off"
        THEN [w EXCEPT !.restore_state = target_state,
                       !.target_state = TargetUpdate(target_state, [hvac_mode |-> "off"]),
                       !.control_state = mode]
        ELSE IF mode = "on" /\ current_hvac = "off"
        THEN IF restore_state = none_state
             THEN [w EXCEPT !.target_state =
                                IF w.default_hvac_mode # None
                                THEN TargetUpdate(target_state,
                                                  [hvac_mode |-> w.default_hvac_mode])
                                ELSE target_state,
                            !.control_state = mode]
             ELSE [w EXCEPT !.target_state = TargetUpdate(target_state, filtered_data),
                            !.restore_state = none_state,
                            !.control_state = mode]
        ELSE [w EXCEPT !.control_state = mode]

\* window_control.py _execute_action, run for a mode
ExecuteAction(mode) ==
    /\ window_control.control_state # "idle"
    /\ window_control' = ExecuteActionOn(window_control, mode)
    /\ UNCHANGED <<group_vars, retry, debounce, setter, reducer, service_call>>

NextWindow == \E mode \in {"on", "off"} : ExecuteAction(mode)

SpecWindow == InitWindow /\ [][NextWindow]_vars

\* C30: a window-open action that fires while the target hvac mode is not
\* OFF saves the target state and sets the target hvac mode to OFF; the
\* window-close action that follows it writes every saved attribute the
\* restore filter allows back to the target state, so that the hvac mode is
\* the one of before when the filter has hvac_mode, leaves the other
\* attributes as they are and clears the saved state.
C30_SnapshotAndRestore ==
    [][LET before == window_control
           after == window_control'
           none_state == [key \in DOMAIN before.target_state |-> NoneOf(key)]
           allowed(key) == key \in DOMAIN before.filter_state /\ before.filter_state[key]
       IN  /\ (/\ after # before
               /\ after.control_state = "off"
               /\ before.target_state.hvac_mode # "off") =>
                  /\ after.restore_state = before.target_state
                  /\ after.target_state = [before.target_state EXCEPT !.hvac_mode = "off"]
           /\ (/\ after # before
               /\ after.control_state = "on"
               /\ before.target_state.hvac_mode = "off"
               /\ before.restore_state # none_state) =>
                  /\ \A key \in DOMAIN before.target_state :
                        after.target_state[key] =
                            IF allowed(key) THEN before.restore_state[key]
                            ELSE before.target_state[key]
                  /\ after.restore_state = none_state]_vars

\* --------------------------------------------------- the handler's frames
\* C31: in LOCK mode, once a snapshot exists, a member change that is not an
\* internal change and comes while no lock timeout is running leaves the
\* snapshot attributes and the snapshot states as they are; a step replaces
\* the snapshot only as an update of an internal change (its completion or
\* its timeout), as the capitulation of an enforcement task, or as an
\* update after the lock timeout.
C31_LockNeverAdoptsDrift ==
    [][(sync_mode = "lock" /\ DOMAIN snapshot_attrs # {}) =>
          LET replaced == \/ snapshot_attrs' # snapshot_attrs
                          \/ snapshot_states' # snapshot_states
              update == hass_states' # hass_states \/ target_hvac_mode' # target_hvac_mode
              internal == update /\ IsInternalChange(Group')
              capitulation == \E t \in TaskIds :
                                 /\ enf[t].pc = "settle"
                                 /\ enf'[t].outcome = "capitulated"
              lock_timeout == update /\ last_sync_attempt # None
          IN  /\ replaced => (internal \/ capitulation \/ lock_timeout)
              /\ (/\ hass_states' # hass_states
                  /\ ~IsInternalChange(Group')
                  /\ last_sync_attempt = None) => ~replaced]_vars

\* a lock group whose member has moved its temperature by hand: the group
\* reports 21, the snapshot is still the one taken at 20
C31_Witness ==
    /\ sync_mode = "lock"
    /\ context = ExtContext
    /\ member_changes >= 1
    /\ attr["temperature"] = 21
    /\ DOMAIN snapshot_attrs # {}
    /\ snapshot_attrs["temperature"] = 20
    /\ \A i \in DOMAIN snapshot_states : snapshot_states[i].temperature = 20


\* ------------------------------------- the ServiceCallHandler and cancel-all
\* The handler with the debouncer of one service name and the two ways in
\* which a retry loop is started: "debounced" is the task of _debounce_func,
\* "direct" the execute_with_retry that the enforcement loop gathers itself
\* (sync_mode.py lines 215-222).  A loop is suspended at an await (the
\* executor's service call or the sleep between two attempts) whenever
\* another step runs.  service_call.at_cancel and service_call.late_calls
\* are history: the loops that were running when async_cancel_all was
\* invoked (a loop started later is a new one), and those of them that
\* issued a setter call afterwards; service_call.invoked_with is the context
\* that the latest invocation of call_debounced passed in kwargs.
Loops == {"debounced", "direct"}
MaxHandlerCalls == 3
NoLoop == [pc |-> "none", attempt |-> 0, must_cancel |-> FALSE]

\* a handler that marks every action with a context as external control
ExternalControlAfterAnyMode(kwargs_context, is_external_controlled) ==
    kwargs_context # NoContext

\* service_call.py call_debounced lines 108-121: the external-control flag
\* after the invocation
ExternalControlAfter(kwargs_context, is_external_controlled) ==
    IF kwargs_context # NoContext
    THEN (IF sync_mode = "mirror" THEN TRUE ELSE is_external_controlled)
    ELSE FALSE

InitServiceCall ==
    /\ sync_mode \in SyncModes
    /\ varied = "temperature"
    /\ hvac_mode_strategy = "normal"
    /\ target_avg_calc = "mean"
    /\ sync_retry_attempts = 0
    /\ retry_attempts \in 0..MaxRetryAttempts
    /\ tie_first = <<"low", "high">>
    /\ GroupAtRest
    /\ retry = NoRetry
    /\ debounce = NoDebounce
    /\ setter = NoSetter
    /\ reducer = NoReducer
    /\ window_control = NoWindow
    /\ service_call =
          [debouncer |-> [timer |-> FALSE, execute_at_end |-> FALSE, locked |-> FALSE],
           loops |-> [l \in Loops |-> NoLoop],
           active_tasks |-> {},
           cancel_all |-> "idle",
           at_cancel |-> {},
           late_calls |-> {},
           is_external_controlled |-> FALSE,
           invoked_with |-> NoContext,
           calls |-> 0]

service_call_frame ==
    <<sync_mode, hvac_mode_strategy, target_avg_calc, sync_retry_attempts,
      retry_attempts, tie_first, hass_states, states, attr, available,
      target_hvac_mode, snapshot_attrs, snapshot_states, active_tasks,
      sync_retry_counter, last_sync_attempt, internal_change_start_time, enf,
      children, user_call, user_commands, ctx_seen, last_call, member_changes,
      varied, retry, debounce, setter, reducer, window_control>>

\* call_debounced (service_call.py lines 100-147).  entity_context is the
\* context the entity holds when the call arrives (the service helper sets
\* it before a user's call), kwargs_context the context passed in kwargs
\* (None: a user action).  Then Debouncer.async_call: while the timer runs
\* the call is noted, while the function executes it is dropped, else the
\* timer is started.
CallDebouncedWith(entity_context, kwargs_context) ==
    /\ service_call.calls < MaxHandlerCalls
    /\ context' = entity_context
    /\ last_group_context' = IF kwargs_context # NoContext THEN last_group_context
                             ELSE entity_context
    /\ LET d == service_call.debouncer
       IN  service_call' =
              [service_call EXCEPT
                  !.calls = @ + 1,
                  !.invoked_with = kwargs_context,
                  !.is_external_controlled = ExternalControlAfter(kwargs_context, @),
                  !.debouncer = IF d.timer THEN [d EXCEPT !.execute_at_end = TRUE]
                                ELSE IF d.locked THEN d
                                ELSE [d EXCEPT !.execute_at_end = TRUE, !.timer = TRUE]]
    /\ UNCHANGED service_call_frame

\* the debouncer's timer ends: _debounce_func starts in a task of its own if
\* a call was noted and no execution is running; the task adds itself to
\* _active_tasks (service_call.py lines 123-127)
DebouncerTimerFinish ==
    /\ service_call.debouncer.timer
    /\ LET d == service_call.debouncer
           h == [service_call EXCEPT !.debouncer.timer = FALSE,
                                     !.debouncer.execute_at_end = FALSE]
       IN  service_call' =
              IF d.execute_at_end /\ ~d.locked
              THEN [h EXCEPT !.debouncer.locked = TRUE,
                             !.loops["debounced"] = [NoLoop EXCEPT !.pc = "run"],
                             !.at_cancel = @ \ {"debounced"},
                             !.active_tasks = @ \cup {"debounced"}]
              ELSE h
    /\ UNCHANGED <<service_call_frame, context, last_group_context>>

\* sync_mode.py _enforce_group_state lines 213-226: the enforcement loop
\* awaits execute_with_retry itself, not through call_debounced
DirectStart ==
    /\ service_call.calls < MaxHandlerCalls
    /\ service_call.loops["direct"].pc # "run"
    /\ service_call' = [service_call EXCEPT !.calls = @ + 1,
                                            !.at_cancel = @ \ {"direct"},
                                            !.loops["direct"] = [NoLoop EXCEPT !.pc = "run"]]
    /\ UNCHANGED <<service_call_frame, context, last_group_context>>

\* execute_with_retry (service_call.py lines 80-98): one attempt of a loop,
\* the executor's result and, if the budget allows, the sleep that follows.
\* When the loop of _debounce_func ends, its finally block discards the
\* task (lines 130-132), and the debouncer releases its lock and starts the
\* cooldown.
LoopAttempt(l, result) ==
    /\ service_call.loops[l].pc = "run"
    /\ ~service_call.loops[l].must_cancel
    /\ LET loop == service_call.loops[l]
           done == AfterAttempt(result, loop.attempt) = "done"
           h == [service_call EXCEPT
                    !.loops[l] = IF done THEN [loop EXCEPT !.pc = "done"]
                                 ELSE [loop EXCEPT !.attempt = @ + 1],
                    !.late_calls = IF l \in service_call.at_cancel /\ result # "True"
                                   THEN @ \cup {l} ELSE @]
       IN  service_call' =
              IF done /\ l = "debounced"
              THEN [h EXCEPT !.active_tasks = @ \ {l},
                             !.debouncer.locked = FALSE,
                             !.debouncer.timer = TRUE]
              ELSE h
    /\ UNCHANGED <<service_call_frame, context, last_group_context>>

\* async_cancel_all up to its await (service_call.py lines 66-78): the
\* debouncer's pending call is cancelled, every task of _active_tasks is
\* asked to cancel; without a task the coroutine returns at once
AsyncCancelAll ==
    /\ service_call.cancel_all = "idle"
    /\ service_call' =
          [service_call EXCEPT
              !.debouncer.timer = FALSE,
              !.debouncer.execute_at_end = FALSE,
              !.loops = [l \in Loops |->
                            IF l \in service_call.active_tasks
                            THEN [@[l] EXCEPT !.must_cancel = TRUE] ELSE @[l]],
              !.at_cancel = {l \in Loops : service_call.loops[l].pc = "run"},
              !.cancel_all = IF service_call.active_tasks = {} THEN "returned"
                             ELSE "gather"]
    /\ UNCHANGED <<service_call_frame, context, last_group_context>>

\* the cancelled tasks are resumed with CancelledError at their await: the
\* finally block of _debounce_func discards the task, the debouncer releases
\* its lock and starts the cooldown, and the gather of async_cancel_all
\* (service_call.py lines 77-78) returns
CancelAllReturns ==
    /\ service_call.cancel_all = "gather"
    /\ LET cancelled == {l \in Loops : service_call.loops[l].must_cancel}
       IN  service_call' =
              [service_call EXCEPT
                  !.loops = [l \in Loops |->
                                IF l \in cancelled
                                THEN [@[l] EXCEPT !.pc = "cancelled", !.must_cancel = FALSE]
                                ELSE @[l]],
                  !.active_tasks = @ \ cancelled,
                  !.debouncer.locked = IF "debounced" \in cancelled THEN FALSE ELSE @,
                  !.debouncer.timer = IF "debounced" \in cancelled THEN TRUE ELSE @,
                  !.cancel_all = "returned"]
    /\ UNCHANGED <<service_call_frame, context, last_group_context>>

NextServiceCall ==
    \/ \E entity_context \in {"user1", "user2"}, kwargs_context \in {NoContext, SyncContext} :
          CallDebouncedWith(IF kwargs_context = NoContext THEN entity_context ELSE context,
                            kwargs_context)
    \/ DebouncerTimerFinish
    \/ DirectStart
    \/ \E l \in Loops, result \in RetryResults : LoopAttempt(l, result)
    \/ AsyncCancelAll
    \/ CancelAllReturns

SpecServiceCall == InitServiceCall /\ [][NextServiceCall]_vars

\* C32: when async_cancel_all is invoked the debouncer's pending call is
\* dropped; when it returns no task is left in the handler's set of active
\* tasks; no loop that was running when it was invoked issues a setter call
\* afterwards; and a task is in the set exactly while its retry loop is
\* running.
C32_CancelAllComplete ==
    [][/\ (service_call.cancel_all = "idle" /\ service_call'.cancel_all # "idle") =>
             /\ ~service_call'.debouncer.timer
             /\ ~service_call'.debouncer.execute_at_end
       /\ (service_call.cancel_all # "returned" /\ service_call'.cancel_all = "returned") =>
             service_call'.active_tasks = {}
       /\ service_call'.late_calls = {}
       /\ \A l \in Loops :
             l \in service_call'.active_tasks <=> service_call'.loops[l].pc = "run"]_vars


\* C36: call_debounced invoked without a context keeps the group's current
\* context as the last-issued command context and resets the
\* external-control flag; invoked with a context it leaves the last-issued
\* command context alone and sets the flag in MIRROR mode only, leaving it
\* as it was in the other modes.
C36_CommandProvenance ==
    [][(/\ service_call'.calls = service_call.calls + 1
        /\ service_call'.loops = service_call.loops) =>
          IF service_call'.invoked_with = NoContext
          THEN /\ last_group_context' = context'
               /\ ~service_call'.is_external_controlled
          ELSE /\ last_group_context' = last_group_context
               /\ service_call'.is_external_controlled =
                     (sync_mode = "mirror" \/ service_call.is_external_controlled)]_vars

\* C36 witness: in MIRROR mode, after a user's call kept its context, a call
\* with a context set the flag and left that context in place
C36_Witness ==
    /\ sync_mode = "mirror"
    /\ service_call.cancel_all # "none"
    /\ service_call.invoked_with = SyncContext
    /\ service_call.is_external_controlled
    /\ last_group_context = "user1"
    /\ context = "user1"


\* C33: the sync handler never has more than one active enforcement task; a
\* group update that is no internal change and arrives while a task is
\* active creates no task and leaves the set as it is; an update that is an
\* internal change cancels the tasks and empties the set; and a task that
\* ended is removed from the set.
C33_AtMostOneEnforcementTask ==
    [][LET update == hass_states' # hass_states \/ target_hvac_mode' # target_hvac_mode
           created == {t \in TaskIds : enf[t].pc = "none" /\ enf'[t].pc # "none"}
       IN  /\ Cardinality(active_tasks) <= 1
           /\ Cardinality(active_tasks') <= 1
           /\ (update /\ active_tasks # {} /\ ~IsInternalChange(Group')) =>
                 (created = {} /\ active_tasks' = active_tasks)
           /\ (update /\ active_tasks # {} /\ sync_mode # "standard"
                  /\ IsInternalChange(Group')) =>
                 (active_tasks' = {} /\ \A t \in active_tasks : enf'[t].pc = "none")
           /\ \A t \in TaskIds :
                 (enf[t].pc = "done" /\ enf'[t].pc # "done") => t \notin active_tasks'
           /\ \A t \in TaskIds : enf'[t].pc # "none" => t \in active_tasks']_vars

\* C33 witness: an external change arrived while the one task was active,
\* the members deviate from the snapshot, and the task is still the only one
C33_Witness ==
    /\ sync_mode = "lock"
    /\ member_changes >= 2
    /\ context = ExtContext
    /\ Cardinality(active_tasks) = 1
    /\ \E t \in active_tasks : enf[t].pc \notin {"none", "start", "done"}
    /\ \A t \in TaskIds \ active_tasks : enf[t].pc = "none"
    /\ \A m \in Members : hass_states[m].temperature = 21
    /\ snapshot_attrs["temperature"] = 20


\* C34: while an enforcement task is active, a group update that is no
\* internal change leaves the snapshot attributes and the snapshot member
\* states as they are, in LOCK and in MIRROR mode, whatever time has passed
\* since the last sync attempt.
C34_SnapshotProtected ==
    [][(/\ hass_states' # hass_states \/ target_hvac_mode' # target_hvac_mode
        /\ active_tasks # {}
        /\ ~IsInternalChange(Group')) =>
          /\ snapshot_attrs' = snapshot_attrs
          /\ snapshot_states' = snapshot_states]_vars

\* C34 witness: in MIRROR mode an external change raised the group's
\* temperature while the task was active, and the snapshot still holds the
\* value the task enforces
C34_Witness ==
    /\ sync_mode = "mirror"
    /\ context = ExtContext
    /\ member_changes >= 2
    /\ active_tasks # {}
    /\ \E t \in active_tasks : enf[t].pc \notin {"none", "start", "done"}
    /\ DOMAIN snapshot_attrs # {}
    /\ snapshot_attrs["temperature"] = 20
    /\ \A m \in Members : hass_states[m].temperature = 21
    /\ attr["temperature"] = 21


\* C35: when the enforcement loop, after an attempt and its settle time,
\* finds no member with a valid state, it ends at once: no further attempt
\* and no setter call, the retry counter back at 0, and the snapshot
\* attributes and snapshot member states as they were.
C35_AbortWithoutCapitulating ==
    [][\A t \in TaskIds :
          (/\ enf[t].pc = "settle"
           /\ \A m \in Members : hass_states[m].state \in InvalidStates
           /\ hass_states' = hass_states
           /\ enf'[t] # enf[t]) =>
             /\ enf'[t].pc = "done"
             /\ enf'[t].outcome = "aborted"
             /\ enf'[t].attempt = enf[t].attempt
             /\ children' = children
             /\ last_call' = last_call
             /\ sync_retry_counter' = 0
             /\ snapshot_attrs' = snapshot_attrs
             /\ snapshot_states' = snapshot_states]_vars

\* C35 witness: a loop with attempts left ended by the abort, the members
\* are gone and the snapshot still holds the temperature it enforced
C35_Witness ==
    /\ \E t \in TaskIds :
          /\ enf[t].pc = "done"
          /\ enf[t].outcome = "aborted"
          /\ enf[t].attempt + 1 < MaxAttempts
    /\ \A m \in Members : hass_states[m].state \in InvalidStates
    /\ sync_retry_counter = 0
    /\ DOMAIN snapshot_attrs # {}
    /\ snapshot_attrs["temperature"] = 20
    /\ snapshot_states # <<>>


\* C37: a run of execute_set_hvac_mode that finds no member supporting the
\* mode issues no setter call, leaves the target hvac mode as it is and
\* returns False; and whenever a run of an executor changes the target hvac
\* mode, it is to the requested mode and the same run issues the hvac-mode
\* setter call to a non-empty set of supporting members.
C37_UnsupportedModeRejected ==
    [][LET supporting == GetSupportingEntities(hass_states)
           log == setter'.log
       IN  /\ (/\ setter.pc = "start"
               /\ setter.service = "set_hvac_mode"
               /\ setter'.pc = "done"
               /\ supporting = {}) =>
                 /\ log = setter.log
                 /\ target_hvac_mode' = target_hvac_mode
                 /\ setter'.result = "False"
           /\ target_hvac_mode' # target_hvac_mode =>
                 /\ Len(log) = Len(setter.log) + 1
                 /\ log[Len(log)].service = "set_hvac_mode"
                 /\ log[Len(log)].hvac_mode = target_hvac_mode'
                 /\ log[Len(log)].ids # {}
                 /\ log[Len(log)].ids \subseteq supporting]_vars

\* C37 witness: with every member unavailable, a set_hvac_mode for a mode
\* other than the target ended without a call and with the target kept
C37_Witness ==
    /\ setter.pc = "done"
    /\ setter.service = "set_hvac_mode"
    /\ \A m \in Members : hass_states[m].state = "unavailable"
    /\ setter.kwargs.hvac_mode = "heat"
    /\ target_hvac_mode = "off"
    /\ setter.log = <<>>
    /\ setter.result = "False"


\* C38: before and after every group state update, under every strategy and
\* for all member states, the group's hvac_mode is None exactly when the
\* group is unavailable.
C38_AvailabilityAndModeAgree ==
    /\ (attr["hvac_mode"] = None) <=> ~available
    /\ states # NoStates => (available <=> states # <<>>)

\* C38 witness: under the off_priority strategy the group was on, then all
\* members stopped responding: the group is unavailable and its mode None,
\* while its other aggregates are still there
C38_Witness ==
    /\ hvac_mode_strategy = "off_priority"
    /\ member_changes >= NumMembers
    /\ \A m \in Members : hass_states[m].state \in InvalidStates
    /\ states = <<>>
    /\ ~available
    /\ attr["hvac_mode"] = None
    /\ attr["temperature"] # NoTemp


\* ------------------------------------------- window control with its timer
\* The WindowControlHandler with its sensors and its delayed action.
\* zone_open is what _window_control_logic reads from the sensors (a window
\* of the room or the zone is open); timers counts the delayed callbacks
\* the host holds for the handler, timer_cancel tells whether the handler
\* holds the handle of one.  A task made with hass.async_create_task runs at
\* once up to its first suspension, and _execute_action makes its
\* assignments before it suspends: the action is part of the step that
\* starts it.  fired and actions are history: the latest action, and the
\* number of actions so far.
MaxWindowEvents == 3
MaxTargetChanges == 2

\* a _cancel_timer that drops the handle and leaves the callback scheduled
CancelTimerForgetting(w) == [w EXCEPT !.timer_cancel = FALSE]

\* window_control.py _cancel_timer
CancelTimer(w) ==
    IF w.timer_cancel THEN [w EXCEPT !.timers = @ - 1, !.timer_cancel = FALSE] ELSE w

\* window_control.py _window_control_logic, the control mode
ControlMode(zone_open) == IF zone_open THEN "off" ELSE "on"

\* hass.async_create_task(self._execute_action(mode)) on the handler w
StartAction(w, mode, by) ==
    [ExecuteActionOn(w, mode) EXCEPT
        !.fired = [mode |-> mode, by |-> by, zone_open |-> w.zone_open],
        !.actions = @ + 1]

\* async_call_later(hass, delay, self._on_timer_expired)
ScheduleTimer(w) == [w EXCEPT !.timers = @ + 1, !.timer_cancel = TRUE]

InitWindowTimer ==
    /\ sync_mode = "standard"
    /\ varied = "hvac_mode"
    /\ hvac_mode_strategy = "normal"
    /\ target_avg_calc = "mean"
    /\ sync_retry_attempts = 0
    /\ retry_attempts = 0
    /\ tie_first = <<"low", "high">>
    /\ GroupAtRest
    /\ retry = NoRetry
    /\ debounce = NoDebounce
    /\ setter = NoSetter
    /\ reducer = NoReducer
    /\ service_call = NoServiceCall
    /\ \E target_state \in [hvac_mode : {None, "off", "heat"}, temperature : {20},
                            fan_mode : {None}, last_updated_timestamp : {0}],
          restore_attrs \in {{}, {"hvac_mode"}, {"hvac_mode", "temperature", "fan_mode"}},
          default_hvac_mode \in {None, "heat"},
          zone_open \in BOOLEAN :
          window_control =
              [control_state |-> "on",
               target_state |-> target_state,
               restore_state |-> [key \in DOMAIN target_state |-> NoneOf(key)],
               filter_state |-> [key \in {"hvac_mode", "temperature", "fan_mode"} |->
                                    key \in restore_attrs],
               default_hvac_mode |-> default_hvac_mode,
               subscribed |-> FALSE,
               zone_open |-> zone_open,
               timers |-> 0,
               timer_cancel |-> FALSE,
               fired |-> [mode |-> "none", by |-> "none", zone_open |-> FALSE],
               actions |-> 0,
               events |-> 0,
               changes |-> 0]

window_frame == <<group_vars, retry, debounce, setter, reducer, service_call>>

\* window_control.py async_setup: the listener is subscribed and the initial
\* state checked; the timer is scheduled without a look at _timer_cancel
AsyncSetup(delay_positive) ==
    /\ window_control.control_state # "idle"
    /\ ~window_control.subscribed
    /\ LET w == [window_control EXCEPT !.subscribed = TRUE]
       IN  window_control' = IF delay_positive THEN ScheduleTimer(w)
                             ELSE StartAction(w, ControlMode(w.zone_open), "setup")
    /\ UNCHANGED window_frame

\* window_control.py _state_change_listener for an event of a sensor, the
\* sensors being configured: the pending timer is cancelled, then the timer
\* is scheduled or the action started
StateChangeListener(zone_open, delay_positive) ==
    /\ window_control.control_state # "idle"
    /\ window_control.subscribed
    /\ window_control.events < MaxWindowEvents
    /\ LET w == CancelTimer([window_control EXCEPT !.zone_open = zone_open,
                                                   !.events = @ + 1])
       IN  window_control' = IF delay_positive THEN ScheduleTimer(w)
                             ELSE StartAction(w, ControlMode(zone_open), "event")
    /\ UNCHANGED window_frame

\* window_control.py _on_timer_expired: the handle is dropped, the sensors
\* are read again and the action started for what they say now
OnTimerExpired ==
    /\ window_control.control_state # "idle"
    /\ window_control.timers > 0
    /\ LET w == [window_control EXCEPT !.timers = @ - 1, !.timer_cancel = FALSE]
       IN  window_control' = StartAction(w, ControlMode(w.zone_open), "timer")
    /\ UNCHANGED window_frame

\* a user's command changes the target state: TargetState.update
UserTargetChange(kwargs) ==
    /\ window_control.control_state # "idle"
    /\ window_control.changes < MaxTargetChanges
    /\ window_control' = [window_control EXCEPT
                             !.target_state = TargetUpdate(@, kwargs),
                             !.changes = @ + 1]
    /\ UNCHANGED window_frame

NextWindowTimer ==
    \/ \E delay_positive \in BOOLEAN : AsyncSetup(delay_positive)
    \/ \E zone_open \in BOOLEAN, delay_positive \in BOOLEAN :
          StateChangeListener(zone_open, delay_positive)
    \/ OnTimerExpired
    \/ \E kwargs \in {[hvac_mode |-> "off"], [hvac_mode |-> "heat"], [temperature |-> 21]} :
          UserTargetChange(kwargs)

SpecWindowTimer == InitWindowTimer /\ [][NextWindowTimer]_vars

\* C39: a saved restore snapshot never has the hvac mode OFF; a window-open
\* action that fires while the target hvac mode is OFF leaves the restore
\* snapshot as it is (none stays none); and a window-close action without a
\* snapshot changes the target hvac mode only when a default hvac mode is
\* configured, and then to that mode.
C39_SnapshotNeverOff ==
    [][LET before == window_control
           after == window_control'
           none_state == [key \in DOMAIN before.target_state |-> NoneOf(key)]
           fires == after.actions = before.actions + 1
       IN  /\ after.restore_state # none_state => after.restore_state.hvac_mode # "off"
           /\ (fires /\ after.fired.mode = "off" /\ before.target_state.hvac_mode = "off") =>
                 after.restore_state = before.restore_state
           /\ (/\ fires
               /\ after.fired.mode = "on"
               /\ before.restore_state = none_state
               /\ after.target_state.hvac_mode # before.target_state.hvac_mode) =>
                 /\ before.default_hvac_mode # None
                 /\ after.target_state.hvac_mode = before.default_hvac_mode]_vars

\* C39 witness: the windows were opened while the group heated, the user
\* then set the target to OFF and to 21 degrees, and a second window-open
\* action fired: the snapshot still holds the heat mode of before
C39_Witness ==
    /\ window_control.control_state = "off"
    /\ window_control.subscribed
    /\ window_control.actions >= 2
    /\ window_control.changes >= 1
    /\ window_control.fired.mode = "off"
    /\ window_control.target_state.hvac_mode = "off"
    /\ window_control.target_state.temperature = 21
    /\ window_control.restore_state.hvac_mode = "heat"
    /\ window_control.restore_state.temperature = 20

\* C40: the host never holds more than one delayed action of the handler,
\* and holds one exactly when the handler holds its handle; after a sensor
\* event the only delayed action is the one the event scheduled, and none is
\* left when the event started its action at once; every action that fires,
\* from an event, from the timer or from the setup, is the one the sensors
\* ask for at that moment.
C40_AtMostOneTimer ==
    [][LET before == window_control
           after == window_control'
       IN  /\ after.timers <= 1
           /\ after.timer_cancel <=> after.timers = 1
           /\ (after.events = before.events + 1 /\ after.actions # before.actions) =>
                 after.timers = 0
           /\ after.actions # before.actions =>
                 /\ after.fired.mode = ControlMode(after.zone_open)
                 /\ after.fired.zone_open = after.zone_open
           /\ (before.timers > 0 /\ after.timers < before.timers
                  /\ after.events = before.events) =>
                 (after.actions = before.actions + 1 /\ after.fired.by = "timer")]_vars

\* C40 witness: a timer was scheduled while a window was open, a later
\* event closed the window and scheduled the timer anew, and the timer that
\* fired turned the heating on: one action, no timer left
C40_Witness ==
    /\ window_control.control_state # "idle"
    /\ window_control.subscribed
    /\ window_control.events >= 2
    /\ window_control.actions = 1
    /\ window_control.fired.by = "timer"
    /\ window_control.fired.mode = "on"
    /\ ~window_control.zone_open
    /\ window_control.timers = 0
    /\ ~window_control.timer_cancel

====
